---- MODULE Spec2Model ----
(***************************************************************************)
(* Model of ray.train._internal.storage: the storage context (path layout, *)
(* validation marker, checkpoint persistence), the filesystem utilities    *)
(* (download with rollback and file lock, upload with exclude patterns,    *)
(* get_fs_and_path) and the background syncer the context instantiates.    *)
(*                                                                         *)
(* A path is a sequence of tokens; the separator "/" is a token of its own *)
(* so that os.path.join, prefix stripping and "starts with" are computed   *)
(* on the text of the path.                                                *)
(***************************************************************************)
EXTENDS Integers, Sequences, FiniteSets, TLC

VARIABLES
    \* ---- StorageContext and persist_current_checkpoint
    config,         \* the run's <<storage_path, storage_filesystem>> (RunConfig)
    ctx,            \* the driver's StorageContext, or NoCtx before __init__ returned
    ctorResult,     \* what the last StorageContext(...) call did: "none", "ok" or the error raised
    fs,             \* physical filesystems: [FsIds -> [dirs, files]]
    trial_dir_name, \* per worker copy of the context: trial_dir_name (or None)
    current_checkpoint_index, \* per worker copy of the context
    pc,             \* per worker: position inside persist_current_checkpoint
    result,         \* per worker: what the last persist call returned or raised
    src,            \* per worker: the source checkpoint directory (local temp dir)
    pending,        \* per worker: source files the running copy has not copied yet
    callInfo,       \* per worker: facts recorded when the running call started (history)
    wrote,          \* per worker: durable paths the running call has written (history)
    established,    \* locations on which _create_validation_file completed (history)
    establishCalled, \* locations on which _create_validation_file was started (history)
    calls,          \* persist calls started so far, over all workers
    persisted,      \* per worker: the checkpoint directories its earlier persist calls wrote to (history)
    \* ---- _FilesystemSyncer (the background sync engine of one context)
    syncState,      \* "Idle", "Syncing" or "Failed"
    transfer,       \* per upload started: "none", "running", "succeeded" or "failed"
    tracked,        \* the upload the engine is waiting on, 0 when none
    dirty,          \* local content is newer than the last successful mirror
    requested,      \* a scheduleUpload request is waiting for the engine to be idle
    waiter,         \* the caller of waitUntilIdle: [pc, seen], seen the engine state
                    \* at the moment the call ended
    \* ---- _download_from_fs_path, called by processes of one machine
    callers,        \* the processes that download in this run
    remote,         \* what (fs, fs_path) is: "dir", "file" or "notfound"
    localfs,        \* the machine's local filesystem: [dirs, files]
    lockOwner,      \* per lock scope: the caller holding the file lock, or Free
    dpc,            \* per caller: position inside _download_from_fs_path
    dargs,          \* per caller: the arguments of the running call
    exists_before,  \* per caller: the local variable exists_before
    dpending,       \* per caller: source files the running copy has not copied yet
    dresult,        \* per caller: "none", "ok" or "raise"
    dhist,          \* per caller: the local filesystem when the call started, the
                    \* paths its copy wrote and what _is_directory returned (history)
    \* ---- _upload_to_fs_path of one local directory, and the download back
    upSource,       \* the local directory tree at local_path: [dirs, files]
    exclude,        \* the exclude argument: a list of patterns, <<>> for None
    upImplicit,     \* the destination backend needs no parent directory for a file
    upRemote,       \* what the destination filesystem holds: [dirs, files]
    upPending,      \* listed files the running copy has not copied yet
    upc,            \* position: "idle", "copy", "raised", "uploaded", "done"
    upBack,         \* what the download back wrote to the new local directory
    upLog,          \* what the calls did (history): the outcome of _create_directory and
                    \* of _delete_fs_path, and the call whose exception left the caller
    \* ---- one call of get_fs_and_path
    rargs,          \* <<storage_path, storage_filesystem>>
    rresult,        \* NotCalled, or what the call returned or raised
    \* ---- the checkpoint directory names of two checkpoint indices
    nmIndex,        \* <<index, index>>: two values of current_checkpoint_index
    nmPath,         \* per index: checkpoint_fs_path, <<>> before it is read
    nmParsed,       \* per index: _get_checkpoint_index of the directory name, <<>> before
    \* ---- one StorageContext(...) call, up to the fields it computes
    lyArgs,         \* <<storage_path, storage_filesystem>>
    lyName,         \* the experiment_dir_name argument
    lyIndex,        \* the current_checkpoint_index argument, <<>> when not given
    layout,         \* NoCtx, or the fields of the context, or the error raised
    lyPaths,        \* NoPaths, or the path properties read with a trial name and index
    \* ---- one call of _pyarrow_fs_copy_files
    cpArgs,         \* [source_filesystem, destination_filesystem, kwargs]
    cpRun,          \* NoCopy, or the options pyarrow.fs.copy_files ran with
    \* ---- ray.util.spark.start_ray_node: the launcher processes of one machine
    globalMode,     \* global_mode_enabled()
    collectLogs,    \* collect_log_to_path is set
    role,           \* per process: "head" or "worker" (START_RAY_WORKER_NODE)
    tempDir,        \* temp_dir exists
    mpc,            \* per process: position of the main thread
    lock_fd,        \* per process: "none", "open" or "closed"
    flock,          \* per process: the lock its descriptor holds on <temp_dir>.lock:
                    \* "none", "sh" or "ex"
    clean_temp_dir_lock, \* per process: the thread that holds the RLock, or "free"
    monitor,        \* per process: the check_parent_alive thread was started
    signals,        \* SIGTERM deliveries and parent deaths so far, over all processes
    inv             \* per process and caller of try_clean_temp_dir_at_exit ("main": line
                    \* 175, "sig": the SIGTERM handler, "mon": check_parent_alive):
                    \* [pc, lock_acquired, log]

persistVars == <<config, ctx, ctorResult, fs, trial_dir_name, current_checkpoint_index, pc, result,
                 src, pending, callInfo, wrote, established, establishCalled, calls, persisted>>

syncVars == <<syncState, transfer, tracked, dirty, requested, waiter>>

dlVars == <<callers, remote, localfs, lockOwner, dpc, dargs, exists_before, dpending,
            dresult, dhist>>

upVars == <<upSource, exclude, upImplicit, upRemote, upPending, upc, upBack, upLog>>

rsVars == <<rargs, rresult>>

nmVars == <<nmIndex, nmPath, nmParsed>>

lyVars == <<lyArgs, lyName, lyIndex, layout, lyPaths>>

cpVars == <<cpArgs, cpRun>>

skVars == <<globalMode, collectLogs, role, tempDir, mpc, lock_fd, flock, clean_temp_dir_lock,
            monitor, signals, inv>>

vars == <<persistVars, syncVars, dlVars, upVars, rsVars, nmVars, lyVars, cpVars, skVars>>

\* what the actions of one component leave alone
outsidePersist == <<syncVars, dlVars, upVars, rsVars, nmVars, lyVars, cpVars, skVars>>
outsideSync == <<persistVars, dlVars, upVars, rsVars, nmVars, lyVars, cpVars, skVars>>
outsideDownload == <<persistVars, syncVars, upVars, rsVars, nmVars, lyVars, cpVars, skVars>>
outsideUpload == <<persistVars, syncVars, dlVars, rsVars, nmVars, lyVars, cpVars, skVars>>
outsideResolve == <<persistVars, syncVars, dlVars, upVars, nmVars, lyVars, cpVars, skVars>>
outsideNaming == <<persistVars, syncVars, dlVars, upVars, rsVars, lyVars, cpVars, skVars>>
outsideLayout == <<persistVars, syncVars, dlVars, upVars, rsVars, nmVars, cpVars, skVars>>
outsideCopy == <<persistVars, syncVars, dlVars, upVars, rsVars, nmVars, lyVars, skVars>>
outsideSpark == <<persistVars, syncVars, dlVars, upVars, rsVars, nmVars, lyVars, cpVars>>

None == "None"
NoCtx == [constructed |-> FALSE]

(***************************************************************************)
(* Paths                                                                   *)
(***************************************************************************)
Sep == "/"

\* os.path.join(a, b)
Join(a, b) ==
    IF b # <<>> /\ Head(b) = Sep THEN b
    ELSE IF a = <<>> \/ a[Len(a)] = Sep THEN a \o b
    ELSE a \o <<Sep>> \o b

\* the directories create_dir(path, recursive=True) makes: the path and its parents
DirsOf(p) ==
    { SubSeq(p, 1, i) : i \in { j \in 1..Len(p) :
          /\ p[j] # Sep
          /\ (j = Len(p) \/ p[j + 1] = Sep) } }

IsPrefix(a, b) == Len(a) <= Len(b) /\ SubSeq(b, 1, Len(a)) = a

\* the components of a path: the token runs between separators
RECURSIVE Split(_)
Split(p) ==
    IF p = <<>> THEN <<>>
    ELSE IF Head(p) = Sep THEN Split(Tail(p))
    ELSE LET seps == { i \in 1..Len(p) : p[i] = Sep }
             stop == IF seps = {} THEN Len(p) + 1
                     ELSE CHOOSE i \in seps : \A j \in seps : i <= j
         IN  <<SubSeq(p, 1, stop - 1)>> \o Split(SubSeq(p, stop, Len(p)))

\* drop "." components and resolve ".." against the component before it
RECURSIVE Collapse(_, _)
Collapse(done, todo) ==
    IF todo = <<>> THEN done
    ELSE IF Head(todo) = <<".">> THEN Collapse(done, Tail(todo))
    ELSE IF Head(todo) = <<"..">> /\ done # <<>> /\ done[Len(done)] # <<"..">>
         THEN Collapse(SubSeq(done, 1, Len(done) - 1), Tail(todo))
    ELSE Collapse(Append(done, Head(todo)), Tail(todo))

RECURSIVE Glue(_)
Glue(comps) ==
    IF comps = <<>> THEN <<>>
    ELSE IF Len(comps) = 1 THEN Head(comps)
    ELSE Head(comps) \o <<Sep>> \o Glue(Tail(comps))

IsAbs(p) == p # <<>> /\ Head(p) = Sep

\* os.path.normpath
Normpath(p) ==
    IF IsAbs(p) THEN <<Sep>> \o Glue(Collapse(<<>>, Split(p)))
    ELSE Glue(Collapse(<<>>, Split(p)))

(***************************************************************************)
(* Filesystem handles and physical filesystems                             *)
(***************************************************************************)
Nodes == {"head", "n2"}
Workers == {"w1", "w2"}
\* the machine a worker process runs on; the driver runs on "head"
NodeOf(w) == IF w = "w1" THEN "head" ELSE "n2"
DriverNode == "head"

\* pyarrow filesystem handles: the auto-resolved ones and a user-supplied one
Handles == {"Local", "S3", "Mock", "Custom"}

\* the bytes a handle reaches from a node: a LocalFileSystem handle reaches the
\* node's own disk, every other handle reaches one store shared by all nodes
Phys(handle, node) == IF handle = "Local" THEN <<"disk", node>> ELSE <<handle>>
FsIds == { Phys(h, n) : h \in Handles, n \in Nodes }

EmptyFs == [dirs |-> {}, files |-> {}]

\* fs.get_file_info([fs_path])[0].type != FileType.NotFound
_exists_at_fs_path(store, fs_path) ==
    \/ fs_path \in store.dirs
    \/ \E f \in store.files : f[1] = fs_path

\* fs.create_dir(path) (recursive): the path and its missing parents become directories
\* a create_dir that would start from an empty directory
CreateDir_Fresh(store, path) ==
    [dirs |-> { d \in store.dirs : ~IsPrefix(path \o <<Sep>>, d) } \cup DirsOf(path),
     files |-> { f \in store.files : ~IsPrefix(path \o <<Sep>>, f[1]) }]

CreateDir(store, path) == [store EXCEPT !.dirs = @ \cup DirsOf(path)]

\* writing (or overwriting) one file
WriteFile(store, path, content) ==
    [store EXCEPT !.files = { f \in @ : f[1] # path } \cup {<<path, content>>}]

(***************************************************************************)
(* get_fs_and_path                                                         *)
(***************************************************************************)
SchemeSep == "://"
QuerySep == "?"

\* ray.air._internal.uri_utils.is_uri: the path carries a URI scheme
is_uri(path) == Len(path) >= 2 /\ path[2] = SchemeSep

\* the part of a URI between the scheme and the query
UriBody(uri) ==
    LET q == { i \in 1..Len(uri) : uri[i] = QuerySep }
        last == IF q = {} THEN Len(uri) ELSE (CHOOSE i \in q : \A j \in q : i <= j) - 1
    IN  SubSeq(uri, 3, last)

\* pyarrow.fs.FileSystem.from_uri on the inputs modelled here: an s3 URI keeps
\* the bucket in the path, a mock URI drops its authority, an absolute local
\* path is returned as it is with a LocalFileSystem
FromUri(storage_path) ==
    IF is_uri(storage_path) THEN
        IF storage_path[1] = "s3"
        THEN [fs |-> "S3", path |-> UriBody(storage_path)]
        ELSE [fs |-> "Mock", path |-> SubSeq(UriBody(storage_path), 3, Len(UriBody(storage_path)))]
    ELSE [fs |-> "Local", path |-> storage_path]

get_fs_and_path_NoUriCheck(storage_path, storage_filesystem) ==
    IF storage_filesystem # None
    THEN [err |-> "none", fs |-> storage_filesystem, path |-> storage_path]
    ELSE [err |-> "none"] @@ FromUri(storage_path)

get_fs_and_path(storage_path, storage_filesystem) ==
    IF storage_filesystem # None
    THEN IF is_uri(storage_path)
         THEN [err |-> "ValueError", fs |-> None, path |-> <<>>]
         ELSE [err |-> "none", fs |-> storage_filesystem, path |-> storage_path]
    ELSE [err |-> "none"] @@ FromUri(storage_path)


(***************************************************************************)
(* URI: the storage prefix of a storage path                               *)
(***************************************************************************)
\* the query of a URI, <<>> when it has none
UriQuery(uri) ==
    LET q == { i \in 1..Len(uri) : uri[i] = QuerySep }
    IN  IF q = {} THEN <<>>
        ELSE SubSeq(uri, (CHOOSE i \in q : \A j \in q : i <= j) + 1, Len(uri))

\* the path a URI object keeps is normalised; an empty path reads "."
UriPath(p) == IF Normpath(p) = <<>> THEN <<".">> ELSE Normpath(p)

\* URI(s): scheme, authority and path as one path, query
URI(s) ==
    IF is_uri(s) THEN [scheme |-> s[1], path |-> UriPath(UriBody(s)), query |-> UriQuery(s)]
    ELSE [scheme |-> "", path |-> UriPath(s), query |-> <<>>]

\* URI.rstrip_subpath(subpath): the URI without the trailing subpath
rstrip_subpath(uri, subpath) ==
    [uri EXCEPT !.path =
        IF Len(subpath) <= Len(@) /\ SubSeq(@, Len(@) - Len(subpath) + 1, Len(@)) = subpath
        THEN UriPath(SubSeq(@, 1, Len(@) - Len(subpath)))
        ELSE @]

\* uri / subpath: the path joined as pathlib joins it
UriJoin(uri, subpath) ==
    [uri EXCEPT !.path = IF @ = <<".">> THEN UriPath(subpath) ELSE UriPath(Join(@, subpath))]

\* str(uri)
UriStr(uri) ==
    (IF uri.scheme = "" THEN <<>> ELSE <<uri.scheme, SchemeSep>>)
    \o uri.path
    \o (IF uri.query = <<>> THEN <<>> ELSE <<QuerySep>> \o uri.query)
(***************************************************************************)
(* StorageContext: construction and path properties                        *)
(***************************************************************************)
\* _get_defaults_results_dir(): the local cache root
LocalRoot == <<Sep, "r">>
NoTrial == <<>>     \* trial_dir_name is None
ExperimentDirName == <<"exp">>
TrialNames == {<<"t1">>, <<"t2">>}
MarkerName == <<".validate_storage_marker">>

\* the largest checkpoint index the scheduler hands out in the model
MaxIndex == 1
\* the number of persist calls of a run, over all workers
MaxCalls == 2
\* the number of uploads one sync engine starts in the model
MaxTransfers == 3

DigitChar == <<"0", "1", "2", "3", "4", "5", "6", "7", "8", "9">>

RECURSIVE Decimal(_)
Decimal(n) == IF n < 10 THEN <<DigitChar[n + 1]>>
              ELSE Decimal(n \div 10) \o <<DigitChar[(n % 10) + 1]>>

RECURSIVE ZeroPad(_, _)
ZeroPad(digits, width) == IF Len(digits) >= width THEN digits
                          ELSE ZeroPad(<<"0">> \o digits, width)

\* a name that keeps the last six digits of the index only
_make_checkpoint_dir_name_SixDigits(index) ==
    <<"checkpoint", "_">> \o ZeroPad(Decimal(index % 1000000), 6)

\* f"checkpoint_{index:06d}"
_make_checkpoint_dir_name(index) ==
    <<"checkpoint", "_">> \o (IF index >= 0 THEN ZeroPad(Decimal(index), 6)
                          ELSE <<"-">> \o ZeroPad(Decimal(-index), 5))

experiment_fs_path(c) == Join(c.storage_fs_path, c.experiment_dir_name)
experiment_local_path(c) == Join(c.storage_local_path, c.experiment_dir_name)

\* the trial and checkpoint properties raise RuntimeError while trial_dir_name is None
trial_fs_path_UnderRoot(c, trial) ==
    IF trial = NoTrial THEN [err |-> "InvalidState", path |-> <<>>]
    ELSE [err |-> "none", path |-> Join(c.storage_fs_path, trial)]

trial_fs_path(c, trial) ==
    IF trial = NoTrial THEN [err |-> "InvalidState", path |-> <<>>]
    ELSE [err |-> "none", path |-> Join(experiment_fs_path(c), trial)]

trial_local_path_NoGuard(c, trial) ==
    [err |-> "none", path |-> Join(experiment_local_path(c), trial)]

trial_local_path(c, trial) ==
    IF trial = NoTrial THEN [err |-> "InvalidState", path |-> <<>>]
    ELSE [err |-> "none", path |-> Join(experiment_local_path(c), trial)]

checkpoint_fs_path_NoGuard(c, trial, index) ==
    [err |-> "none",
     path |-> Join(Join(experiment_fs_path(c), trial), _make_checkpoint_dir_name(index))]

checkpoint_fs_path(c, trial, index) ==
    IF trial_fs_path(c, trial).err # "none" THEN trial_fs_path(c, trial)
    ELSE [err |-> "none",
          path |-> Join(trial_fs_path(c, trial).path, _make_checkpoint_dir_name(index))]

ValidFile(c) == Join(experiment_fs_path(c), MarkerName)

\* _create_validation_file, when the backend accepts both calls
_create_validation_file_NoMarker(store, c) == CreateDir(store, experiment_fs_path(c))

_create_validation_file(store, c) ==
    WriteFile(CreateDir(store, experiment_fs_path(c)), ValidFile(c), "")

_check_validation_file(store, c) == _exists_at_fs_path(store, ValidFile(c))

\* the (storage_path, storage_filesystem) pairs a run is configured with
S3Uri == <<"s3", SchemeSep, "bkt", Sep, "p">>
MockUri == <<"mock", SchemeSep, "netloc", Sep, "p", QuerySep, "param=1">>
CtorInputs ==
    { <<<<>>, None>>,                     \* storage_path=None
      <<S3Uri, None>>,
      << <<"bkt", Sep, "p">>, "Custom">>, \* custom filesystem with a bare path
      <<S3Uri, "Custom">> }               \* custom filesystem with a URI

\* lines 478-480: syncing_needed, without the test of custom_fs_provided
syncing_needed_PathOnly(custom_fs_provided, storage_fs_path, storage_local_path) ==
    storage_fs_path # storage_local_path

\* lines 478-480: syncing_needed
syncing_needed(custom_fs_provided, storage_fs_path, storage_local_path) ==
    custom_fs_provided \/ storage_fs_path # storage_local_path

\* lines 471-473, without the strip: the whole storage path as the prefix
storage_prefix_Unstripped(storage_path, storage_fs_path) == URI(storage_path)

\* lines 471-473: URI(self.storage_path).rstrip_subpath(Path(self.storage_fs_path))
storage_prefix(storage_path, storage_fs_path) ==
    rstrip_subpath(URI(storage_path), storage_fs_path)

\* the fields __init__ computes before it touches the storage
\* the parameter `current_checkpoint_index: int = 0`; `given` is <<>> when the
\* caller passes no index
InitialCheckpointIndex_One(given) == IF given = <<>> THEN 1 ELSE given[1]

InitialCheckpointIndex(given) == IF given = <<>> THEN 0 ELSE given[1]

NewContext(storage_path, storage_filesystem) ==
    LET sp == IF storage_path = <<>> THEN LocalRoot ELSE storage_path
        r  == get_fs_and_path(sp, storage_filesystem)
    IN  [constructed |-> TRUE,
         storage_path |-> sp,
         storage_local_path |-> LocalRoot,
         experiment_dir_name |-> ExperimentDirName,
         current_checkpoint_index |-> InitialCheckpointIndex(<<>>),
         storage_filesystem |-> r.fs,
         storage_fs_path |-> r.path,
         storage_prefix |-> storage_prefix(sp, r.path),
         syncer |-> syncing_needed(storage_filesystem # None, r.path, LocalRoot)]

\* the location (physical filesystem, experiment path) a process on `node` reaches
Location(c, node) == <<Phys(c.storage_filesystem, node), experiment_fs_path(c)>>

\* StorageContext.__init__ on the driver. `backend` is what the storage does to
\* the two calls of _create_validation_file: it accepts both ("ok"), or fails
\* create_dir or open_output_stream, whose exception leaves __init__.
Construct(storage_path, storage_filesystem, backend) ==
    /\ UNCHANGED outsidePersist
    /\ ~ctx.constructed /\ ctorResult = "none"
    /\ LET sp == IF storage_path = <<>> THEN LocalRoot ELSE storage_path
           r  == get_fs_and_path(sp, storage_filesystem)
           c  == NewContext(storage_path, storage_filesystem)
           id == Phys(c.storage_filesystem, DriverNode)
       IN  IF r.err # "none"
           THEN /\ ctorResult' = r.err
                /\ UNCHANGED <<ctx, fs, established, establishCalled>>
           ELSE /\ establishCalled' = establishCalled \cup {Location(c, DriverNode)}
                /\ IF backend = "create_dir"
                   THEN /\ ctorResult' = "BackendError"
                        /\ UNCHANGED <<ctx, fs, established>>
                   ELSE IF backend = "open_output_stream"
                   THEN /\ ctorResult' = "BackendError"
                        /\ fs' = [fs EXCEPT ![id] = CreateDir(@, experiment_fs_path(c))]
                        /\ UNCHANGED <<ctx, established>>
                   ELSE LET after == _create_validation_file(fs[id], c)
                        IN  /\ fs' = [fs EXCEPT ![id] = after]
                            /\ established' = established \cup {Location(c, DriverNode)}
                            /\ IF _check_validation_file(after, c)
                               THEN ctx' = c /\ ctorResult' = "ok"
                               ELSE ctorResult' = "Reachability" /\ UNCHANGED ctx
    /\ UNCHANGED <<config, persisted, trial_dir_name, current_checkpoint_index, pc, result, src, pending,
                   callInfo, wrote, calls>>

\* the names the owner of a copy assigns in the model: the trial's name first;
\* the owner of the first worker's copy assigns a second name afterwards
TrialNameInputs(w) ==
    IF trial_dir_name[w] = NoTrial THEN {<<"t1">>}
    ELSE IF w = "w1" /\ trial_dir_name[w] = <<"t1">> THEN {<<"t2">>}
    ELSE {}

\* storage.trial_dir_name = ... on a worker's copy of the context: a plain
\* attribute, assigned whatever value it holds
SetTrialDirName(w, name) ==
    /\ UNCHANGED outsidePersist
    /\ ctx.constructed /\ pc[w] = "idle"
    /\ trial_dir_name[w] # name
    /\ trial_dir_name' = [trial_dir_name EXCEPT ![w] = name]
    /\ UNCHANGED <<config, persisted, ctx, ctorResult, fs, current_checkpoint_index, pc, result, src, pending,
                   callInfo, wrote, established, establishCalled, calls>>

\* storage.current_checkpoint_index = ... on a worker's copy of the context
SetCheckpointIndex(w, index) ==
    /\ UNCHANGED outsidePersist
    /\ ctx.constructed /\ pc[w] = "idle"
    /\ current_checkpoint_index[w] # index
    /\ current_checkpoint_index' = [current_checkpoint_index EXCEPT ![w] = index]
    /\ UNCHANGED <<config, persisted, ctx, ctorResult, fs, trial_dir_name, pc, result, src, pending,
                   callInfo, wrote, established, establishCalled, calls>>

(***************************************************************************)
(* persist_current_checkpoint, one action per call the method makes        *)
(***************************************************************************)
NoResult == [kind |-> "none", err |-> "none", fs |-> None, path |-> <<>>]
Raised(e) == [kind |-> "raise", err |-> e, fs |-> None, path |-> <<>>]
Returned(handle, path) == [kind |-> "return", err |-> "none", fs |-> handle, path |-> path]

NoCall == [marker |-> FALSE, trialSet |-> FALSE, loc |-> <<>>, check |-> "none",
           src |-> {}, backendErr |-> "none"]

\* the checkpoint a worker reports: a temp directory holding the common file and
\* the worker's own shard (test_new_persistence.train_fn)
ShardName(w) == <<"checkpoint_shard-rank=", w, ".pkl">>
SourceOf(w) == { << <<"checkpoint.pkl">>, w >>, << ShardName(w), w >> }

StoreOf(w) == Phys(ctx.storage_filesystem, NodeOf(w))
Dest(w) == checkpoint_fs_path(ctx, trial_dir_name[w], current_checkpoint_index[w])

\* lines 547-561: the log line evaluates checkpoint_fs_path, then the gate runs.
\* `gate` is the outcome of _check_validation_file.
PersistEnter(w, gate) ==
    /\ UNCHANGED outsidePersist
    /\ ctx.constructed /\ pc[w] = "idle"
    /\ calls < MaxCalls
    /\ calls' = calls + 1
    /\ callInfo' = [callInfo EXCEPT ![w] =
           [marker |-> _exists_at_fs_path(fs[StoreOf(w)], ValidFile(ctx)),
            trialSet |-> trial_dir_name[w] # NoTrial,
            loc |-> Location(ctx, NodeOf(w)),
            check |-> IF Dest(w).err # "none" THEN "none"
                      ELSE IF gate THEN "ok" ELSE "Reachability",
            src |-> src[w],
            backendErr |-> "none"]]
    /\ wrote' = [wrote EXCEPT ![w] = {}]
    /\ IF Dest(w).err # "none"
       THEN pc' = [pc EXCEPT ![w] = "done"] /\ result' = [result EXCEPT ![w] = Raised(Dest(w).err)]
       ELSE IF ~gate
       THEN pc' = [pc EXCEPT ![w] = "done"] /\ result' = [result EXCEPT ![w] = Raised("Reachability")]
       ELSE pc' = [pc EXCEPT ![w] = "create_dir"] /\ UNCHANGED result
    /\ UNCHANGED <<config, persisted, ctx, ctorResult, fs, trial_dir_name, current_checkpoint_index, src, pending,
                   established, establishCalled>>

PersistBegin_NoGate(w) == PersistEnter(w, TRUE)

PersistBegin(w) == PersistEnter(w, _check_validation_file(fs[StoreOf(w)], ctx))

\* line 563: storage_filesystem.create_dir(checkpoint_fs_path); `swallow` tells
\* whether a backend failure is caught (it is not: the call is outside any try)
PersistCreateDirStep(w, backend, swallow) ==
    /\ UNCHANGED outsidePersist
    /\ pc[w] = "create_dir"
    /\ IF backend = "ok"
       THEN /\ fs' = [fs EXCEPT ![StoreOf(w)] = CreateDir(@, Dest(w).path)]
            /\ wrote' = [wrote EXCEPT ![w] = @ \cup {Dest(w).path}]
            /\ pending' = [pending EXCEPT ![w] = src[w]]
            /\ pc' = [pc EXCEPT ![w] = "copy"]
            /\ UNCHANGED <<result, callInfo>>
       ELSE /\ callInfo' = [callInfo EXCEPT ![w].backendErr = "CreateDirError"]
            /\ IF swallow
               THEN /\ pending' = [pending EXCEPT ![w] = src[w]]
                    /\ pc' = [pc EXCEPT ![w] = "copy"]
                    /\ UNCHANGED result
               ELSE /\ result' = [result EXCEPT ![w] = Raised("CreateDirError")]
                    /\ pc' = [pc EXCEPT ![w] = "done"]
                    /\ UNCHANGED pending
            /\ UNCHANGED <<fs, wrote>>
    /\ UNCHANGED <<config, persisted, ctx, ctorResult, trial_dir_name, current_checkpoint_index, src,
                   established, establishCalled, calls>>

PersistCreateDir_Swallow(w, backend) == PersistCreateDirStep(w, backend, TRUE)

PersistCreateDir(w, backend) == PersistCreateDirStep(w, backend, FALSE)

\* lines 564-569: _pyarrow_fs_copy_files copies the source files one by one, in
\* any order; `move` tells whether the source file is removed once copied
PersistCopyStep(w, f, move) ==
    /\ UNCHANGED outsidePersist
    /\ pc[w] = "copy" /\ f \in pending[w]
    /\ fs' = [fs EXCEPT ![StoreOf(w)] = WriteFile(@, Join(Dest(w).path, f[1]), f[2])]
    /\ wrote' = [wrote EXCEPT ![w] = @ \cup {Join(Dest(w).path, f[1])}]
    /\ pending' = [pending EXCEPT ![w] = @ \ {f}]
    /\ src' = IF move THEN [src EXCEPT ![w] = @ \ {f}] ELSE src
    /\ UNCHANGED <<config, persisted, ctx, ctorResult, trial_dir_name, current_checkpoint_index, pc, result,
                   callInfo, established, establishCalled, calls>>

PersistCopyFile_Move(w, f) == PersistCopyStep(w, f, TRUE)

PersistCopyFile(w, f) == PersistCopyStep(w, f, FALSE)

\* the copy fails (a backend error while files are still to be copied)
PersistCopyFail(w) ==
    /\ UNCHANGED outsidePersist
    /\ pc[w] = "copy" /\ pending[w] # {}
    /\ callInfo' = [callInfo EXCEPT ![w].backendErr = "CopyError"]
    /\ result' = [result EXCEPT ![w] = Raised("CopyError")]
    /\ pc' = [pc EXCEPT ![w] = "done"]
    /\ UNCHANGED <<config, persisted, ctx, ctorResult, fs, trial_dir_name, current_checkpoint_index, src, pending,
                   wrote, established, establishCalled, calls>>

\* lines 571-576: the persisted checkpoint handle; `handle` is the pair returned
PersistReturnWith(w, handle) ==
    /\ UNCHANGED outsidePersist
    /\ pc[w] = "copy" /\ pending[w] = {}
    /\ result' = [result EXCEPT ![w] = handle]
    /\ pc' = [pc EXCEPT ![w] = "done"]
    /\ UNCHANGED <<config, persisted, ctx, ctorResult, fs, trial_dir_name, current_checkpoint_index, src, pending,
                   callInfo, wrote, established, establishCalled, calls>>

PersistReturn(w) == PersistReturnWith(w, Returned(ctx.storage_filesystem, Dest(w).path))

\* the caller has taken the outcome of the call
PersistAck(w) ==
    /\ UNCHANGED outsidePersist
    /\ pc[w] = "done"
    /\ pc' = [pc EXCEPT ![w] = "idle"]
    /\ result' = [result EXCEPT ![w] = NoResult]
    /\ callInfo' = [callInfo EXCEPT ![w] = NoCall]
    /\ wrote' = [wrote EXCEPT ![w] = {}]
    /\ persisted' = [persisted EXCEPT ![w] = IF wrote[w] = {} THEN @ ELSE @ \cup {Dest(w).path}]
    /\ UNCHANGED <<config, ctx, ctorResult, fs, trial_dir_name, current_checkpoint_index, src, pending,
                   established, establishCalled, calls>>

(***************************************************************************)
(* The sync engine (_FilesystemSyncer on top of _BackgroundSyncer)         *)
(***************************************************************************)
InFlight == { t \in 1..MaxTransfers : transfer[t] = "running" }
NotStarted == { t \in 1..MaxTransfers : transfer[t] = "none" }

\* the engine launches the command _sync_up_command built: _upload_to_fs_path
\* starts running in the background and becomes the upload the engine waits on
StartUpload ==
    /\ NotStarted # {}
    /\ LET t == CHOOSE x \in NotStarted : \A y \in NotStarted : x <= y
       IN  /\ transfer' = [transfer EXCEPT ![t] = "running"]
           /\ tracked' = t
    /\ syncState' = "Syncing"
    /\ dirty' = FALSE
    /\ requested' = FALSE

\* the training process writes into the local directory
LocalWrite ==
    /\ UNCHANGED <<outsideSync, waiter>>
    /\ ~dirty
    /\ dirty' = TRUE
    /\ UNCHANGED <<syncState, transfer, tracked, requested>>

\* scheduleUpload: starts an upload when the engine is idle; a request that
\* arrives while the engine is syncing is kept and served once it is idle again
ScheduleUpload ==
    /\ UNCHANGED <<outsideSync, waiter>>
    /\ IF syncState = "Idle"
       THEN StartUpload
       ELSE /\ ~requested
            /\ requested' = TRUE
            /\ UNCHANGED <<syncState, transfer, tracked, dirty>>

\* the periodic cycle: one upload when the engine is idle and there is local
\* content newer than the last mirror or a request waiting
TickWhen(due) ==
    /\ UNCHANGED <<outsideSync, waiter>>
    /\ syncState = "Idle"
    /\ due
    /\ StartUpload

Tick_RequestsOnly == TickWhen(requested)

Tick == TickWhen(dirty \/ requested)

\* _upload_to_fs_path returns: the upload the engine waits on ends the cycle,
\* an abandoned upload just ends
UploadSucceeds(t) ==
    /\ UNCHANGED <<outsideSync, waiter>>
    /\ transfer[t] = "running"
    /\ transfer' = [transfer EXCEPT ![t] = "succeeded"]
    /\ IF tracked = t
       THEN syncState' = "Idle" /\ tracked' = 0
       ELSE UNCHANGED <<syncState, tracked>>
    /\ UNCHANGED <<dirty, requested>>

\* _upload_to_fs_path raises (its copy failed): the cycle fails, the content is
\* still to be mirrored
UploadFails(t) ==
    /\ UNCHANGED <<outsideSync, waiter>>
    /\ transfer[t] = "running"
    /\ transfer' = [transfer EXCEPT ![t] = "failed"]
    /\ IF tracked = t
       THEN syncState' = "Failed" /\ tracked' = 0 /\ dirty' = TRUE
       ELSE UNCHANGED <<syncState, tracked, dirty>>
    /\ UNCHANGED requested

\* the cycle exceeds sync_timeout: the engine stops waiting on the upload and
\* reports the cycle failed; the copy is not cancelled and keeps running
CycleTimeout ==
    /\ UNCHANGED <<outsideSync, waiter>>
    /\ syncState = "Syncing" /\ tracked # 0
    /\ syncState' = "Failed"
    /\ tracked' = 0
    /\ dirty' = TRUE
    /\ UNCHANGED <<transfer, requested>>

\* the failure is logged and the engine is idle again
Heal ==
    /\ UNCHANGED <<outsideSync, waiter>>
    /\ syncState = "Failed"
    /\ syncState' = "Idle"
    /\ UNCHANGED <<transfer, tracked, dirty, requested>>


\* waitUntilIdle(timeout): the caller blocks until the engine is idle or the
\* timeout elapses, whichever first
NoWait == [pc |-> "none", seen |-> "none"]

WaitUntilIdle ==
    /\ UNCHANGED outsideSync
    /\ waiter.pc = "none"
    /\ waiter' = [pc |-> "waiting", seen |-> "none"]
    /\ UNCHANGED <<syncState, transfer, tracked, dirty, requested>>

\* the call returns normally
WaitReturnWhen(cond) ==
    /\ UNCHANGED outsideSync
    /\ waiter.pc = "waiting" /\ cond
    /\ waiter' = [pc |-> "returned", seen |-> syncState]
    /\ UNCHANGED <<syncState, transfer, tracked, dirty, requested>>

WaitReturn_Anytime == WaitReturnWhen(TRUE)

WaitReturn == WaitReturnWhen(syncState = "Idle")

\* the timeout elapses before the engine is idle: the call raises a timeout error
WaitTimeout ==
    /\ UNCHANGED outsideSync
    /\ waiter.pc = "waiting" /\ syncState # "Idle"
    /\ waiter' = [pc |-> "timeout", seen |-> syncState]
    /\ UNCHANGED <<syncState, transfer, tracked, dirty, requested>>

(***************************************************************************)
(* _download_from_fs_path                                                  *)
(***************************************************************************)
Callers == {"c1", "c2"}
Free == "free"
\* the working directory of the downloading processes
Cwd == <<Sep, "tmp">>

\* Path(p).resolve(): absolute and normalised (the model has no symlinks)
Resolve(p) == IF IsAbs(p) THEN Normpath(p) ELSE Normpath(Join(Cwd, p))

\* the parent directory of an absolute normalised path
Parent(p) == <<Sep>> \o Glue(SubSeq(Split(p), 1, Len(Split(p)) - 1))

\* the local_path arguments: two destinations, one of them also spelled
\* relative to the working directory and with a "." component
LocalPathInputs ==
    { <<Sep, "tmp", Sep, "dl", Sep, "x">>,
      <<"dl", Sep, ".", Sep, "x">>,
      <<Sep, "tmp", Sep, "dl", Sep, "y">> }

\* f"{os.path.normpath(local_path)}.lock"
LockFile(local_path) == Normpath(local_path) \o <<".lock">>

\* TempFileLock(path): an advisory lock scoped to the file the path names
LockScope(lock_path) == Resolve(lock_path)
LockScopes == { LockScope(LockFile(p)) : p \in LocalPathInputs }

\* what the source directory (fs, fs_path) holds, as <<name, content>>
RemoteDirFiles == { << <<"a">>, "new" >>, << <<"b">>, "new" >> }

\* _is_directory: `not file_info.is_file`, which is also TRUE for a missing path
_is_directory(kind) == kind # "file"

IsLocalDir(store, p) == p \in store.dirs
IsLocalFile(store, p) == \E f \in store.files : f[1] = p
LocalExists(store, p) == IsLocalDir(store, p) \/ IsLocalFile(store, p)

\* shutil.rmtree(path, ignore_errors=True): removes a directory tree; on a path
\* that is a regular file the NotADirectoryError is ignored and nothing is removed
Rmtree(store, p) ==
    IF IsLocalDir(store, p)
    THEN [dirs |-> { d \in store.dirs : d # p /\ ~IsPrefix(p \o <<Sep>>, d) },
          files |-> { f \in store.files : ~IsPrefix(p \o <<Sep>>, f[1]) }]
    ELSE store

\* the arguments of a call with the two values the call derives from local_path:
\* _local_path (line 158) and the scope of its lock file (line 167)
NoArgs == [local_path |-> <<>>, filelock |-> FALSE, _local_path |-> <<>>, scope |-> <<>>]
Args(local_path, filelock) ==
    [local_path |-> local_path, filelock |-> filelock,
     _local_path |-> Resolve(local_path),
     scope |-> LockScope(LockFile(local_path))]
NoHist == [before |-> EmptyFs, written |-> {}, is_directory |-> "none"]

\* Each process calls the function once; what earlier downloads left behind is
\* part of the initial local disk.
\* lines 158-163: exists_before and the mkdir calls; then the `with` of line 167
\* when `locked`, the bare copy of line 170 otherwise
DownloadEnter(c, local_path, filelock, locked) ==
    /\ UNCHANGED outsideDownload
    /\ c \in callers /\ dpc[c] = "idle"
    /\ dargs' = [dargs EXCEPT ![c] = Args(local_path, filelock)]
    /\ exists_before' = [exists_before EXCEPT ![c] = LocalExists(localfs, Resolve(local_path))]
    /\ dhist' = [dhist EXCEPT ![c] = [before |-> localfs, written |-> {},
                                       is_directory |-> IF _is_directory(remote) THEN "True" ELSE "False"]]
    /\ dpending' = [dpending EXCEPT ![c] = {}]
    /\ IF _is_directory(remote) /\ IsLocalFile(localfs, Resolve(local_path))
       THEN \* mkdir(exist_ok=True) on a regular file raises FileExistsError
            /\ dpc' = [dpc EXCEPT ![c] = "done"]
            /\ dresult' = [dresult EXCEPT ![c] = "raise"]
            /\ UNCHANGED localfs
       ELSE /\ localfs' = IF _is_directory(remote)
                          THEN CreateDir(localfs, Resolve(local_path))
                          ELSE CreateDir(localfs, Parent(Resolve(local_path)))
            /\ dpc' = [dpc EXCEPT ![c] = IF locked THEN "lock" ELSE "copy"]
            /\ UNCHANGED dresult
    /\ UNCHANGED <<callers, remote, lockOwner>>

DownloadBegin_NeverLocks(c, local_path, filelock) == DownloadEnter(c, local_path, filelock, FALSE)

DownloadBegin(c, local_path, filelock) == DownloadEnter(c, local_path, filelock, filelock)

\* TempFileLock.__enter__: blocks until the lock of its scope is free
AcquireLock(c) ==
    /\ UNCHANGED outsideDownload
    /\ dpc[c] = "lock"
    /\ lockOwner[dargs[c].scope] = Free
    /\ lockOwner' = [lockOwner EXCEPT ![dargs[c].scope] = c]
    /\ dpc' = [dpc EXCEPT ![c] = "copy"]
    /\ UNCHANGED <<callers, remote, localfs, dargs, exists_before, dpending, dresult, dhist>>

\* the lock is released when the `with` block is left, normally or by an exception
Released(c) ==
    [s \in DOMAIN lockOwner |-> IF lockOwner[s] = c THEN Free ELSE lockOwner[s]]

\* the files the copy is to write, as <<local path, content>>
CopyPlan(c) ==
    IF remote = "dir"
    THEN { <<Join(dargs[c]._local_path, f[1]), f[2]>> : f \in RemoteDirFiles }
    ELSE IF remote = "file" THEN { <<dargs[c]._local_path, "new">> }
    ELSE {}

\* _pyarrow_fs_copy_files opens one destination file: the file is created or
\* truncated and holds part of the content
CopyOpen(c, f) ==
    /\ UNCHANGED outsideDownload
    /\ dpc[c] = "copy"
    /\ f \in CopyPlan(c) /\ f[1] \notin dhist[c].written
    /\ IsLocalDir(localfs, Parent(f[1])) /\ ~IsLocalDir(localfs, f[1])
    /\ dpending[c] = {}
    /\ localfs' = WriteFile(localfs, f[1], "partial")
    /\ dpending' = [dpending EXCEPT ![c] = {f}]
    /\ dhist' = [dhist EXCEPT ![c].written = @ \cup {f[1]}]
    /\ UNCHANGED <<callers, remote, lockOwner, dpc, dargs, exists_before, dresult>>

\* the open file has received all of its content
CopyWrite(c, f) ==
    /\ UNCHANGED outsideDownload
    /\ dpc[c] = "copy" /\ f \in dpending[c]
    /\ localfs' = IF IsLocalFile(localfs, f[1]) THEN WriteFile(localfs, f[1], f[2]) ELSE localfs
    /\ dpending' = [dpending EXCEPT ![c] = {}]
    /\ UNCHANGED <<callers, remote, lockOwner, dpc, dargs, exists_before, dresult, dhist>>

CopyComplete(c) ==
    /\ dpending[c] = {}
    /\ \A f \in CopyPlan(c) : f[1] \in dhist[c].written
    /\ remote # "notfound"

\* the copy raises: the source is missing, the backend fails, or a destination
\* file cannot be opened; the `with` block is left and the lock released
CopyFail(c) ==
    /\ UNCHANGED outsideDownload
    /\ dpc[c] = "copy" /\ ~CopyComplete(c)
    /\ lockOwner' = Released(c)
    /\ dpending' = [dpending EXCEPT ![c] = {}]
    /\ dpc' = [dpc EXCEPT ![c] = "except"]
    /\ UNCHANGED <<callers, remote, localfs, dargs, exists_before, dresult, dhist>>

\* the copy returns: the lock is released and the function returns
CopyDone(c) ==
    /\ UNCHANGED outsideDownload
    /\ dpc[c] = "copy" /\ CopyComplete(c)
    /\ lockOwner' = Released(c)
    /\ dpc' = [dpc EXCEPT ![c] = "done"]
    /\ dresult' = [dresult EXCEPT ![c] = "ok"]
    /\ UNCHANGED <<callers, remote, localfs, dargs, exists_before, dpending, dhist>>

\* lines 171-175: the except clause; `cleanup` is the condition under which
\* shutil.rmtree(local_path, ignore_errors=True) runs before the re-raise
RollbackIf(c, cleanup) ==
    /\ UNCHANGED outsideDownload
    /\ dpc[c] = "except"
    /\ localfs' = IF cleanup THEN Rmtree(localfs, dargs[c]._local_path) ELSE localfs
    /\ dpc' = [dpc EXCEPT ![c] = "done"]
    /\ dresult' = [dresult EXCEPT ![c] = "raise"]
    /\ UNCHANGED <<callers, remote, lockOwner, dargs, exists_before, dpending, dhist>>

Rollback_Always(c) == RollbackIf(c, TRUE)

Rollback(c) == RollbackIf(c, ~exists_before[c])

(***************************************************************************)
(* _upload_to_fs_path with exclude patterns                                *)
(***************************************************************************)
\* Names and patterns in this component are sequences of one-character tokens.
UploadLocalPath == <<Sep, "s">>
UploadFsPath == <<"k", Sep, "u">>
DownloadBackPath == <<Sep, "t">>

\* os.path.dirname
Dirname(p) ==
    LET seps == { i \in 1..Len(p) : p[i] = Sep }
    IN  IF seps = {} THEN <<>>
        ELSE SubSeq(p, 1, (CHOOSE i \in seps : \A j \in seps : j <= i) - 1)

\* the path of `name` relative to the directory `base` it lies under
Relpath(name, base) == SubSeq(name, Len(base) + 2, Len(name))

\* fnmatch.fnmatch(name, pat) on POSIX: "*" matches any run of characters,
\* the separator included; "?" matches one character; the whole name must match
RECURSIVE fnmatch(_, _)
fnmatch(name, pat) ==
    IF pat = <<>> THEN name = <<>>
    ELSE IF Head(pat) = "*"
         THEN fnmatch(name, Tail(pat)) \/ (name # <<>> /\ fnmatch(Tail(name), pat))
    ELSE IF Head(pat) = "?"
         THEN name # <<>> /\ fnmatch(Tail(name), Tail(pat))
    ELSE name # <<>> /\ Head(name) = Head(pat) /\ fnmatch(Tail(name), Tail(pat))

\* the files the local directory may hold, relative to local_path
SourceFileInputs ==
    { <<"a">>, <<"c", ".", "p">>, <<"l", Sep, "b">>, <<"l", Sep, "d", ".", "p">> }
SourceSubdir == Join(UploadLocalPath, <<"l">>)

\* the local directories uploaded: any of the files, the subdirectory present
\* when it holds a file and present or not when it is empty
SourceTree(chosen, ds) ==
    [dirs |-> {UploadLocalPath} \cup ds,
     files |-> { <<Join(UploadLocalPath, f), "data">> : f \in chosen }]
SourceTreeInputs ==
    { t \in { SourceTree(chosen, ds) : chosen \in SUBSET SourceFileInputs,
                                       ds \in SUBSET {SourceSubdir} } :
          \A f \in t.files : Dirname(f[1]) \in t.dirs }

PatternInputs ==
    { <<"*", ".", "p">>,
      <<"*", Sep, "l">>,
      <<"*", Sep, "l", Sep>>,
      <<"*", Sep, "l", Sep, "*">>,
      <<"*", Sep, "?">>,
      <<"?">>,
      <<"l", Sep, "*">> }

\* the exclude argument: None (or an empty list), one pattern, or two
ExcludeInputs ==
    {<<>>} \cup { <<p>> : p \in PatternInputs }
           \cup { pq \in PatternInputs \X PatternInputs : pq[1] # pq[2] }

\* _should_exclude(name): `tree` is the local disk, which os.path.isdir consults
_should_exclude(tree, excl, name) ==
    LET alt == IF name \in tree.dirs THEN name \o <<Sep>> ELSE <<>>
    IN  \E i \in 1..Len(excl) :
            \/ fnmatch(name, excl[i])
            \/ (alt # <<>> /\ fnmatch(alt, excl[i]))

\* LocalFileSystem.find(path, withdirs=True): every directory and file below path
FindAll(tree, path) ==
    [dirs |-> { d \in tree.dirs : IsPrefix(path \o <<Sep>>, d) },
     files |-> { f \in tree.files : IsPrefix(path \o <<Sep>>, f[1]) }]

\* _ExcludingLocalFilesystem.find: the parent's flat result, each name filtered
find(tree, excl, path) ==
    [dirs |-> { d \in FindAll(tree, path).dirs : ~_should_exclude(tree, excl, d) },
     files |-> { f \in FindAll(tree, path).files : ~_should_exclude(tree, excl, f[1]) }]

\* the listing the copy works from: the plain local filesystem when `not exclude`
\* (lines 198-203), the excluding one otherwise (lines 217-224)
SourceListing(tree, excl) ==
    IF excl = <<>> THEN FindAll(tree, UploadLocalPath) ELSE find(tree, excl, UploadLocalPath)

UploadDest(name) == Join(UploadFsPath, Relpath(name, UploadLocalPath))

RECURSIVE CreateDirs(_, _)
CreateDirs(store, paths) ==
    IF paths = {} THEN store
    ELSE LET p == CHOOSE q \in paths : TRUE
         IN  CreateDirs(CreateDir(store, p), paths \ {p})

\* the destination can take the file: its parent directory exists, or the
\* backend is an object store in which parents are implicit
CanOpenOutput(store, implicit, path) == implicit \/ Dirname(path) \in store.dirs

\* _create_directory: fs.create_dir inside try/except Exception; `backend` is what
\* the filesystem does to the call. `raised` tells whether an exception leaves.
NoLog == [create_dir |-> "none", delete |-> "none", raised_by |-> "none"]

_create_directory_Propagates(store, fs_path, backend) ==
    IF backend = "ok" THEN [store |-> CreateDir(store, fs_path), raised |-> FALSE, did |-> "ok"]
    ELSE [store |-> store, raised |-> TRUE, did |-> "raised"]

_create_directory(store, fs_path, backend) ==
    IF backend = "ok" THEN [store |-> CreateDir(store, fs_path), raised |-> FALSE, did |-> "ok"]
    ELSE [store |-> store, raised |-> FALSE, did |-> "caught"]

\* fs.delete_dir(fs_path): the directory and everything below it
DeleteDir(store, fs_path) ==
    [dirs |-> { d \in store.dirs : d # fs_path /\ ~IsPrefix(fs_path \o <<Sep>>, d) },
     files |-> { f \in store.files : ~IsPrefix(fs_path \o <<Sep>>, f[1]) }]

\* _delete_fs_path: fs.delete_dir inside try/except Exception
_delete_fs_path(store, fs_path, backend) ==
    IF backend = "ok" THEN [store |-> DeleteDir(store, fs_path), raised |-> FALSE, did |-> "ok"]
    ELSE [store |-> store, raised |-> FALSE, did |-> "caught"]

\* _upload_to_fs_path up to the start of the file copies: _create_directory,
\* the source listing, and the directories of the listing created at the destination
UploadBegin(backend) ==
    /\ UNCHANGED outsideUpload
    /\ upc = "idle"
    /\ LET r == _create_directory(upRemote, UploadFsPath, backend)
       IN  IF r.raised
           THEN /\ upc' = "raised"
                /\ upLog' = [upLog EXCEPT !.create_dir = r.did, !.raised_by = "_create_directory"]
                /\ UNCHANGED <<upRemote, upPending>>
           ELSE /\ upRemote' = CreateDirs(r.store,
                                  { UploadDest(d) : d \in SourceListing(upSource, exclude).dirs })
                /\ upPending' = SourceListing(upSource, exclude).files
                /\ upc' = "copy"
                /\ upLog' = [upLog EXCEPT !.create_dir = r.did]
    /\ UNCHANGED <<upSource, exclude, upImplicit, upBack>>

\* pyarrow.fs.copy_files copies one listed file
UploadCopyFile(f) ==
    /\ UNCHANGED outsideUpload
    /\ upc = "copy" /\ f \in upPending
    /\ CanOpenOutput(upRemote, upImplicit, UploadDest(f[1]))
    /\ upRemote' = WriteFile(upRemote, UploadDest(f[1]), f[2])
    /\ upPending' = upPending \ {f}
    /\ UNCHANGED <<upSource, exclude, upImplicit, upc, upBack, upLog>>

\* the copy raises: a listed file's parent directory is not at the destination
UploadFail ==
    /\ UNCHANGED outsideUpload
    /\ upc = "copy"
    /\ \E f \in upPending : ~CanOpenOutput(upRemote, upImplicit, UploadDest(f[1]))
    /\ upc' = "raised"
    /\ upPending' = {}
    /\ upLog' = [upLog EXCEPT !.raised_by = "_pyarrow_fs_copy_files"]
    /\ UNCHANGED <<upSource, exclude, upImplicit, upRemote, upBack>>

\* every listed file is copied: _upload_to_fs_path returns
UploadReturn ==
    /\ UNCHANGED outsideUpload
    /\ upc = "copy" /\ upPending = {}
    /\ upc' = "uploaded"
    /\ UNCHANGED <<upSource, exclude, upImplicit, upRemote, upPending, upBack, upLog>>

\* what a recursive listing of (fs, fs_path) shows: the directories, the
\* files, and the parent directories of the files
RemoteListing(store) ==
    [dirs |-> { d \in store.dirs \cup { Dirname(f[1]) : f \in store.files } :
                    IsPrefix(UploadFsPath \o <<Sep>>, d) },
     files |-> { f \in store.files : IsPrefix(UploadFsPath \o <<Sep>>, f[1]) }]

BackDest(path) == Join(DownloadBackPath, Relpath(path, UploadFsPath))

\* _download_from_fs_path of the uploaded directory into a new local directory,
\* the copy succeeding
DownloadBack ==
    /\ UNCHANGED outsideUpload
    /\ upc = "uploaded"
    /\ upBack' = [dirs |-> {DownloadBackPath} \cup { BackDest(d) : d \in RemoteListing(upRemote).dirs },
                  files |-> { <<BackDest(f[1]), f[2]>> : f \in RemoteListing(upRemote).files }]
    /\ upc' = "done"
    /\ UNCHANGED <<upSource, exclude, upImplicit, upRemote, upPending, upLog>>

\* _delete_fs_path(fs, fs_path) on the uploaded directory, once the upload has
\* been used or has failed
DeleteUploaded(backend) ==
    /\ UNCHANGED outsideUpload
    /\ upc \in {"done", "raised"} /\ upLog.delete = "none"
    /\ LET r == _delete_fs_path(upRemote, UploadFsPath, backend)
       IN  /\ upRemote' = r.store
           /\ upLog' = [upLog EXCEPT !.delete = r.did,
                                     !.raised_by = IF r.raised THEN "_delete_fs_path" ELSE @]
    /\ UNCHANGED <<upSource, exclude, upImplicit, upPending, upc, upBack>>

(***************************************************************************)
(* get_fs_and_path applied to one input                                    *)
(***************************************************************************)
NotCalled == [err |-> "notcalled"]

\* the storage_path arguments: URIs scheme://authority/path?query, absolute
\* local paths, and paths relative to the root of a custom filesystem
UriInputs ==
    { <<scheme, SchemeSep, authority>> \o tail \o query :
        scheme \in {"s3", "mock"}, authority \in {"bkt", "b2"},
        tail \in { <<>>, <<Sep, "p">>, <<Sep, "p", Sep, "q">> },
        query \in { <<>>, <<QuerySep, "k=v">> } }
AbsolutePathInputs == { <<Sep, "r">>, <<Sep, "r", Sep, "p">>, <<Sep, "tmp">> }
BarePathInputs == { <<"bkt", Sep, "p">>, <<"b2">> }

\* the calls made: pyarrow resolves every URI and absolute path above; a bare
\* relative path is given only together with a filesystem
ResolveInputs ==
    { <<p, None>> : p \in UriInputs \cup AbsolutePathInputs }
    \cup { <<p, h>> : p \in UriInputs \cup AbsolutePathInputs \cup BarePathInputs,
                      h \in {"Custom", "S3"} }

ResolveCall ==
    /\ UNCHANGED outsideResolve
    /\ rresult = NotCalled
    /\ rresult' = get_fs_and_path(rargs[1], rargs[2])
    /\ UNCHANGED rargs

(***************************************************************************)
(* Checkpoint directory names: written by the context, read back by name   *)
(***************************************************************************)
\* pathlib's Path.name: the last component of a path
Basename(p) == Split(p)[Len(Split(p))]

\* the value of a digit character
DigitValue(ch) == (CHOOSE i \in 1..10 : DigitChar[i] = ch) - 1

\* int(s) for a run of decimal digits with an optional sign
RECURSIVE ParseDigits(_, _)
ParseDigits(acc, s) ==
    IF s = <<>> THEN acc ELSE ParseDigits(acc * 10 + DigitValue(Head(s)), Tail(s))
ParseInt(s) ==
    IF s # <<>> /\ Head(s) = "-" THEN 0 - ParseDigits(0, Tail(s)) ELSE ParseDigits(0, s)

\* int(checkpoint_dir_name.split("_")[-1])
_get_checkpoint_index(checkpoint_dir_name) ==
    LET us   == { i \in 1..Len(checkpoint_dir_name) : checkpoint_dir_name[i] = "_" }
        from == IF us = {} THEN 1 ELSE (CHOOSE i \in us : \A j \in us : j <= i) + 1
    IN  ParseInt(SubSeq(checkpoint_dir_name, from, Len(checkpoint_dir_name)))

\* the values of current_checkpoint_index named: small ones, the ones around a
\* change of the number of digits, and the first that needs a seventh digit
IndexInputs == {0, 1, 9, 10, 11, 12, 21, 99, 100, 101, 102, 120, 123456, 999999, 1000000}

\* the context whose checkpoint paths are read
NamingContext == NewContext(S3Uri, None)
NamingTrial == <<"t1">>

\* storage.current_checkpoint_index = index; storage.checkpoint_fs_path
ReadCheckpointPaths ==
    /\ UNCHANGED outsideNaming
    /\ nmPath = <<<<>>, <<>>>>
    /\ nmPath' = [k \in 1..2 |-> checkpoint_fs_path(NamingContext, NamingTrial, nmIndex[k]).path]
    /\ UNCHANGED <<nmIndex, nmParsed>>

\* _get_checkpoint_index(checkpoint_dir.name) on the directories written
ParseCheckpointNames ==
    /\ UNCHANGED outsideNaming
    /\ nmPath # <<<<>>, <<>>>> /\ nmParsed = <<>>
    /\ nmParsed' = [k \in 1..2 |-> _get_checkpoint_index(Basename(nmPath[k]))]
    /\ UNCHANGED <<nmIndex, nmPath>>

(***************************************************************************)
(* StorageContext.__init__ applied to one configuration                    *)
(***************************************************************************)
\* the (storage_path, storage_filesystem) pairs given: those of ResolveInputs
\* and storage_path=None with and without a filesystem
LayoutInputs == ResolveInputs \cup { <<<<>>, None>>, <<<<>>, "Custom">> }

\* lines 445-489: the fields of the context, or the ValueError of get_fs_and_path
LayoutInit ==
    /\ UNCHANGED outsideLayout
    /\ layout = NoCtx
    /\ layout' =
         IF get_fs_and_path(IF lyArgs[1] = <<>> THEN LocalRoot ELSE lyArgs[1], lyArgs[2]).err # "none"
         THEN [constructed |-> FALSE, err |-> "ValueError"]
         ELSE [NewContext(lyArgs[1], lyArgs[2]) EXCEPT
                   !.experiment_dir_name = lyName,
                   !.current_checkpoint_index = InitialCheckpointIndex(lyIndex)]
    /\ UNCHANGED <<lyArgs, lyName, lyIndex, lyPaths>>

\* the experiment_dir_name, trial_dir_name and current_checkpoint_index values given
ExperimentNameInputs == { <<"exp">>, <<"e.v2">>, <<"exp", "_", "1">> }
LayoutIndexInputs == {0, 3, 123456}
NoPaths == [read |-> FALSE]

\* trial_dir_name is assigned, current_checkpoint_index is assigned when `assign`
\* (it keeps the constructor's value otherwise), then experiment_fs_path,
\* trial_fs_path and checkpoint_fs_path are read
ReadPaths(trial, index, assign) ==
    /\ UNCHANGED outsideLayout
    /\ layout # NoCtx /\ layout.constructed /\ lyPaths = NoPaths
    /\ LET i == IF assign THEN index ELSE layout.current_checkpoint_index
       IN  lyPaths' = [read |-> TRUE, trial |-> trial, index |-> i, assigned |-> assign,
                       experiment |-> experiment_fs_path(layout),
                       trial_path |-> trial_fs_path(layout, trial).path,
                       checkpoint |-> checkpoint_fs_path(layout, trial, i).path]
    /\ UNCHANGED <<lyArgs, lyName, lyIndex, layout>>

\* StorageContext has not been called
LayoutAtRest ==
    /\ lyArgs = <<<<>>, None>>
    /\ lyName = ExperimentDirName
    /\ lyIndex = <<>>
    /\ layout = NoCtx
    /\ lyPaths = NoPaths

(***************************************************************************)
(* _pyarrow_fs_copy_files applied to one pair of filesystems and options   *)
(***************************************************************************)
\* keyword arguments are a function from the names given to their values
NoKwargs == [k \in {} |-> TRUE]
KwargsInputs ==
    { NoKwargs } \cup { [k \in {"use_threads"} |-> b] : b \in BOOLEAN }
    \cup { [k \in {"chunk_size"} |-> FALSE] }
    \cup { [k \in {"use_threads", "chunk_size"} |-> IF k = "use_threads" THEN b ELSE FALSE] :
              b \in BOOLEAN }

\* source_filesystem and destination_filesystem: a handle, or None (the default)
CopyFsInputs == Handles \cup {None}

\* isinstance(fs, pyarrow.fs.S3FileSystem)
IsS3(handle) == handle = "S3"

\* dict.setdefault: the value is set only when the key is absent
setdefault(kwargs, key, value) ==
    IF key \in DOMAIN kwargs THEN kwargs ELSE [k \in DOMAIN kwargs \cup {key} |->
                                                 IF k = key THEN value ELSE kwargs[k]]

\* lines 96-101: the kwargs handed on to pyarrow.fs.copy_files
copy_kwargs(source_filesystem, destination_filesystem, kwargs) ==
    IF IsS3(source_filesystem) \/ IsS3(destination_filesystem)
    THEN setdefault(kwargs, "use_threads", FALSE)
    ELSE kwargs

\* pyarrow.fs.copy_files(..., use_threads=True): the parameter's default applies
\* when the keyword is not given
NoCopy == [called |-> FALSE]

_pyarrow_fs_copy_files ==
    /\ UNCHANGED outsideCopy
    /\ cpRun = NoCopy
    /\ LET kw == copy_kwargs(cpArgs.source_filesystem, cpArgs.destination_filesystem, cpArgs.kwargs)
       IN  cpRun' = [called |-> TRUE,
                     use_threads |-> IF "use_threads" \in DOMAIN kw THEN kw["use_threads"] ELSE TRUE,
                     chunk_size_given |-> "chunk_size" \in DOMAIN kw]
    /\ UNCHANGED cpArgs

\* _pyarrow_fs_copy_files has not been called
CopyAtRest ==
    /\ cpArgs = [source_filesystem |-> None, destination_filesystem |-> None, kwargs |-> NoKwargs]
    /\ cpRun = NoCopy

(***************************************************************************)
(* ray.util.spark.start_ray_node: the launcher processes of one machine    *)
(* that share one temp_dir                                                 *)
(***************************************************************************)
Procs == {"n1", "n2"}
\* the SIGTERM deliveries and parent deaths of one run
MaxSignals == 1
\* the callers of try_clean_temp_dir_at_exit inside one process
Ctxs == {"main", "sig", "mon"}
\* the handler runs on the main thread, check_parent_alive on its own thread
ThreadOf(k) == IF k = "mon" THEN "T" ELSE "M"

NoInv == [pc |-> "idle", lock_acquired |-> FALSE, log |-> <<>>]
InRoutine == {"unlock", "try_ex", "copy", "rmtree", "finally"}

Alive(p) == mpc[p] \notin {"off", "dead"}

\* the call of context k makes progress: the process lives, and the main thread
\* is not inside the signal handler when k is the main thread's own call
Runs(p, k) == Alive(p) /\ (k = "main" => inv[p]["sig"].pc = "idle")

\* flock(LOCK_EX | LOCK_NB) succeeds when no other open file description holds a
\* lock on the file
CanLockEx_Always(p) == TRUE

CanLockEx_WhileUnopened(p) == \A q \in Procs \ {p} : lock_fd[q] = "none"

CanLockEx(p) == \A q \in Procs \ {p} : flock[q] = "none"

\* flock(LOCK_SH) returns when no other open file description holds the
\* exclusive lock
CanLockSh(p) == \A q \in Procs \ {p} : flock[q] # "ex"

\* the process ends: the kernel closes its descriptors, which drops its lock
Exited(p) ==
    /\ mpc' = [mpc EXCEPT ![p] = "dead"]
    /\ flock' = [flock EXCEPT ![p] = "none"]

\* the launcher is started (lines 34-51)
SparkStart(p) ==
    /\ UNCHANGED outsideSpark
    /\ mpc[p] = "off"
    /\ mpc' = [mpc EXCEPT ![p] = "start"]
    /\ UNCHANGED <<globalMode, collectLogs, role, tempDir, lock_fd, flock, clean_temp_dir_lock,
                   monitor, signals, inv>>

\* lines 55-60: the head node of global mode removes an existing temp_dir
HeadCleanup(p) ==
    /\ UNCHANGED outsideSpark
    /\ mpc[p] = "start"
    /\ tempDir' = IF globalMode /\ role[p] = "head" /\ tempDir THEN FALSE ELSE tempDir
    /\ mpc' = [mpc EXCEPT ![p] = "lock_sh"]
    /\ UNCHANGED <<globalMode, collectLogs, role, lock_fd, flock, clean_temp_dir_lock, monitor, signals, inv>>

\* lines 64-70: os.open of the lock file and the blocking flock(LOCK_SH)
LockShared(p) ==
    /\ UNCHANGED outsideSpark
    /\ mpc[p] = "lock_sh" /\ CanLockSh(p)
    /\ lock_fd' = [lock_fd EXCEPT ![p] = "open"]
    /\ flock' = [flock EXCEPT ![p] = "sh"]
    /\ mpc' = [mpc EXCEPT ![p] = "popen"]
    /\ UNCHANGED <<globalMode, collectLogs, role, tempDir, clean_temp_dir_lock, monitor, signals, inv>>

\* lines 71-77 and 150-174: `ray start` creates the session directory in
\* temp_dir; the monitor thread is started, the handlers are installed and the
\* main thread waits for the child
Popen(p) ==
    /\ UNCHANGED outsideSpark
    /\ mpc[p] = "popen"
    /\ tempDir' = TRUE
    /\ monitor' = [monitor EXCEPT ![p] = ~globalMode \/ role[p] = "worker"]
    /\ mpc' = [mpc EXCEPT ![p] = "wait"]
    /\ UNCHANGED <<globalMode, collectLogs, role, lock_fd, flock, clean_temp_dir_lock, signals, inv>>

\* line 174-175: process.wait() returns and the main thread calls the routine
ChildExit(p) ==
    /\ UNCHANGED outsideSpark
    /\ mpc[p] = "wait" /\ Runs(p, "main")
    /\ mpc' = [mpc EXCEPT ![p] = "clean"]
    /\ inv' = [inv EXCEPT ![p]["main"].pc = "enter"]
    /\ UNCHANGED <<globalMode, collectLogs, role, tempDir, lock_fd, flock, clean_temp_dir_lock, monitor, signals>>

\* lines 168-170: SIGTERM is delivered; the handler runs on the main thread,
\* wherever that thread is, and calls the routine
SigTerm(p) ==
    /\ UNCHANGED outsideSpark
    /\ mpc[p] \in {"wait", "clean", "exit"} /\ inv[p]["sig"].pc = "idle"
    /\ signals < MaxSignals
    /\ signals' = signals + 1
    /\ inv' = [inv EXCEPT ![p]["sig"].pc = "enter"]
    /\ UNCHANGED <<globalMode, collectLogs, role, tempDir, mpc, lock_fd, flock, clean_temp_dir_lock,
                   monitor>>

\* lines 141-143: check_parent_alive sees the parent gone and calls the routine
ParentDeath(p) ==
    /\ UNCHANGED outsideSpark
    /\ mpc[p] \in {"wait", "clean", "exit"} /\ monitor[p] /\ inv[p]["mon"].pc = "idle"
    /\ signals < MaxSignals
    /\ signals' = signals + 1
    /\ inv' = [inv EXCEPT ![p]["mon"].pc = "enter"]
    /\ UNCHANGED <<globalMode, collectLogs, role, tempDir, mpc, lock_fd, flock, clean_temp_dir_lock,
                   monitor>>

\* line 82: `with clean_temp_dir_lock`, a reentrant lock owned by a thread
EnterRoutine(p, k) ==
    /\ UNCHANGED outsideSpark
    /\ Runs(p, k) /\ inv[p][k].pc = "enter"
    /\ clean_temp_dir_lock[p] \in {"free", ThreadOf(k)}
    /\ clean_temp_dir_lock' = [clean_temp_dir_lock EXCEPT ![p] = ThreadOf(k)]
    /\ inv' = [inv EXCEPT ![p][k].pc = "unlock"]
    /\ UNCHANGED <<globalMode, collectLogs, role, tempDir, mpc, lock_fd, flock, monitor, signals>>

\* line 93: flock(lock_fd, LOCK_UN); on a closed descriptor the call raises
\* OSError, which `except Exception` (130) swallows
ReleaseShared(p, k) ==
    /\ UNCHANGED outsideSpark
    /\ Runs(p, k) /\ inv[p][k].pc = "unlock"
    /\ IF lock_fd[p] = "open"
       THEN /\ flock' = [flock EXCEPT ![p] = "none"]
            /\ inv' = [inv EXCEPT ![p][k].pc = "try_ex"]
       ELSE /\ inv' = [inv EXCEPT ![p][k].pc = "finally", ![p][k].log = Append(@, "EBADF")]
            /\ UNCHANGED flock
    /\ UNCHANGED <<globalMode, collectLogs, role, tempDir, mpc, lock_fd, clean_temp_dir_lock, monitor, signals>>

\* lines 95-107: flock(LOCK_EX | LOCK_NB); BlockingIOError sets lock_acquired False
TryExclusive(p, k) ==
    /\ UNCHANGED outsideSpark
    /\ Runs(p, k) /\ inv[p][k].pc = "try_ex"
    /\ IF CanLockEx(p)
       THEN /\ flock' = [flock EXCEPT ![p] = "ex"]
            /\ inv' = [inv EXCEPT ![p][k].lock_acquired = TRUE,
                                  ![p][k].pc = IF collectLogs THEN "copy" ELSE "rmtree"]
       ELSE /\ inv' = [inv EXCEPT ![p][k].lock_acquired = FALSE, ![p][k].pc = "finally",
                                  ![p][k].log = Append(@, "blocked")]
            /\ UNCHANGED flock
    /\ UNCHANGED <<globalMode, collectLogs, role, tempDir, mpc, lock_fd, clean_temp_dir_lock, monitor, signals>>

\* lines 111-126: shutil.copytree of the logs; a failure is logged as a warning
CopyLogs(p, k, ok) ==
    /\ UNCHANGED outsideSpark
    /\ Runs(p, k) /\ inv[p][k].pc = "copy"
    /\ inv' = [inv EXCEPT ![p][k].pc = "rmtree",
                          ![p][k].log = Append(@, IF ok THEN "copied" ELSE "copy_failed")]
    /\ UNCHANGED <<globalMode, collectLogs, role, tempDir, mpc, lock_fd, flock, clean_temp_dir_lock,
                   monitor, signals>>

\* line 129: shutil.rmtree(temp_dir, ignore_errors=True)
RemoveTempDir(p, k) ==
    /\ UNCHANGED outsideSpark
    /\ Runs(p, k) /\ inv[p][k].pc = "rmtree"
    /\ tempDir' = FALSE
    /\ inv' = [inv EXCEPT ![p][k].pc = "finally", ![p][k].log = Append(@, "removed")]
    /\ UNCHANGED <<globalMode, collectLogs, role, mpc, lock_fd, flock, clean_temp_dir_lock, monitor, signals>>

\* the RLock after context k leaves the `with` block: the main thread keeps it
\* when the handler's call was nested inside the main thread's own call
AfterWith(p, k) ==
    IF k = "sig" /\ inv[p]["main"].pc \in InRoutine THEN "M" ELSE "free"

\* lines 133-135: the finally clause, flock(LOCK_UN) and os.close; on a closed
\* descriptor flock raises OSError out of the routine
FinallyClause(p, k) ==
    /\ UNCHANGED outsideSpark
    /\ Runs(p, k) /\ inv[p][k].pc = "finally"
    /\ IF lock_fd[p] = "open"
       THEN /\ flock' = [flock EXCEPT ![p] = "none"]
            /\ lock_fd' = [lock_fd EXCEPT ![p] = "closed"]
            /\ inv' = [inv EXCEPT ![p][k].pc = "returned"]
       ELSE /\ inv' = [inv EXCEPT ![p][k].pc = "raised", ![p][k].log = Append(@, "EBADF")]
            /\ UNCHANGED <<flock, lock_fd>>
    /\ clean_temp_dir_lock' = [clean_temp_dir_lock EXCEPT ![p] = AfterWith(p, k)]
    /\ UNCHANGED <<globalMode, collectLogs, role, tempDir, mpc, monitor, signals>>

\* line 175-176: the main thread's call returned; sys.exit follows
MainReturned(p) ==
    /\ UNCHANGED outsideSpark
    /\ mpc[p] = "clean" /\ Runs(p, "main") /\ inv[p]["main"].pc = "returned"
    /\ mpc' = [mpc EXCEPT ![p] = "exit"]
    /\ UNCHANGED <<globalMode, collectLogs, role, tempDir, lock_fd, flock, clean_temp_dir_lock,
                   monitor, signals, inv>>

\* the process ends: sys.exit (176) after the main thread's call, os._exit (144,
\* 171) after the handler's or the monitor's call returned, or the exception of
\* a call on the main thread, which the second call of line 178 raises again
ProcessExit(p) ==
    /\ UNCHANGED outsideSpark
    /\ Alive(p)
    /\ \/ mpc[p] = "exit" /\ Runs(p, "main")
       \/ inv[p]["sig"].pc \in {"returned", "raised"}
       \/ inv[p]["mon"].pc = "returned"
       \/ Runs(p, "main") /\ inv[p]["main"].pc = "raised"
    /\ Exited(p)
    /\ UNCHANGED <<globalMode, collectLogs, role, tempDir, lock_fd, clean_temp_dir_lock, monitor, signals, inv>>

\* no launcher has been started
SparkAtRest ==
    /\ globalMode = FALSE
    /\ collectLogs = FALSE
    /\ role = [p \in Procs |-> "worker"]
    /\ tempDir = FALSE
    /\ mpc = [p \in Procs |-> "off"]
    /\ lock_fd = [p \in Procs |-> "none"]
    /\ flock = [p \in Procs |-> "none"]
    /\ clean_temp_dir_lock = [p \in Procs |-> "free"]
    /\ monitor = [p \in Procs |-> FALSE]
    /\ signals = 0
    /\ inv = [p \in Procs |-> [k \in Ctxs |-> NoInv]]
(***************************************************************************)
(* Specifications: one per component, the other components at rest         *)
(***************************************************************************)
\* the sync engine before any upload
SyncAtRest ==
    /\ syncState = "Idle"
    /\ transfer = [t \in 1..MaxTransfers |-> "none"]
    /\ tracked = 0
    /\ dirty = FALSE
    /\ requested = FALSE
    /\ waiter = NoWait

\* no download has been called; the local disk holds only the working directory
DownloadAtRest ==
    /\ callers = Callers
    /\ remote = "dir"
    /\ localfs = [dirs |-> {Cwd}, files |-> {}]
    /\ lockOwner = [s \in LockScopes |-> Free]
    /\ dpc = [c \in Callers |-> "idle"]
    /\ dargs = [c \in Callers |-> NoArgs]
    /\ exists_before = [c \in Callers |-> FALSE]
    /\ dpending = [c \in Callers |-> {}]
    /\ dresult = [c \in Callers |-> "none"]
    /\ dhist = [c \in Callers |-> NoHist]

\* no upload has been called
UploadAtRest ==
    /\ upSource = [dirs |-> {UploadLocalPath}, files |-> {}]
    /\ exclude = <<>>
    /\ upImplicit = FALSE
    /\ upRemote = EmptyFs
    /\ upPending = {}
    /\ upc = "idle"
    /\ upBack = EmptyFs
    /\ upLog = NoLog

\* get_fs_and_path has not been called
ResolveAtRest ==
    /\ rargs = <<<<>>, None>>
    /\ rresult = NotCalled

\* no checkpoint path has been read
NamingAtRest ==
    /\ nmIndex = <<0, 0>>
    /\ nmPath = <<<<>>, <<>>>>
    /\ nmParsed = <<>>

InitPersist ==
    /\ SyncAtRest /\ DownloadAtRest /\ UploadAtRest /\ ResolveAtRest /\ NamingAtRest /\ LayoutAtRest /\ CopyAtRest /\ SparkAtRest
    /\ config \in CtorInputs
    /\ ctx = NoCtx
    /\ ctorResult = "none"
    /\ fs = [id \in FsIds |-> EmptyFs]
    /\ trial_dir_name = [w \in Workers |-> NoTrial]
    /\ current_checkpoint_index = [w \in Workers |-> InitialCheckpointIndex(<<>>)]
    /\ pc = [w \in Workers |-> "idle"]
    /\ result = [w \in Workers |-> NoResult]
    /\ src = [w \in Workers |-> SourceOf(w)]
    /\ pending = [w \in Workers |-> {}]
    /\ callInfo = [w \in Workers |-> NoCall]
    /\ wrote = [w \in Workers |-> {}]
    /\ established = {}
    /\ establishCalled = {}
    /\ calls = 0
    /\ persisted = [w \in Workers |-> {}]

NextPersist ==
    \/ \E backend \in {"ok", "create_dir", "open_output_stream"} :
           Construct(config[1], config[2], backend)
    \/ \E w \in Workers : \E name \in TrialNameInputs(w) : SetTrialDirName(w, name)
    \/ \E w \in Workers, index \in 0..MaxIndex : SetCheckpointIndex(w, index)
    \/ \E w \in Workers : PersistBegin(w)
    \/ \E w \in Workers, backend \in {"ok", "fail"} : PersistCreateDir(w, backend)
    \/ \E w \in Workers : \E f \in SourceOf(w) : PersistCopyFile(w, f)
    \/ \E w \in Workers : PersistCopyFail(w)
    \/ \E w \in Workers : PersistReturn(w)
    \/ \E w \in Workers : PersistAck(w)

SpecPersist == InitPersist /\ [][NextPersist]_vars

\* the persistence component before any context is constructed
PersistAtRest ==
    /\ config = <<<<>>, None>>
    /\ ctx = NoCtx
    /\ ctorResult = "none"
    /\ fs = [id \in FsIds |-> EmptyFs]
    /\ trial_dir_name = [w \in Workers |-> NoTrial]
    /\ current_checkpoint_index = [w \in Workers |-> InitialCheckpointIndex(<<>>)]
    /\ pc = [w \in Workers |-> "idle"]
    /\ result = [w \in Workers |-> NoResult]
    /\ src = [w \in Workers |-> SourceOf(w)]
    /\ pending = [w \in Workers |-> {}]
    /\ callInfo = [w \in Workers |-> NoCall]
    /\ wrote = [w \in Workers |-> {}]
    /\ established = {}
    /\ establishCalled = {}
    /\ calls = 0
    /\ persisted = [w \in Workers |-> {}]

InitSync == SyncAtRest /\ PersistAtRest /\ DownloadAtRest /\ UploadAtRest /\ ResolveAtRest /\ NamingAtRest /\ LayoutAtRest /\ CopyAtRest /\ SparkAtRest

NextSync ==
    \/ LocalWrite
    \/ ScheduleUpload
    \/ Tick
    \/ \E t \in 1..MaxTransfers : UploadSucceeds(t)
    \/ \E t \in 1..MaxTransfers : UploadFails(t)
    \/ CycleTimeout
    \/ Heal
    \/ WaitUntilIdle
    \/ WaitReturn
    \/ WaitTimeout

SpecSync == InitSync /\ [][NextSync]_vars

\* the engine's own steps are taken when they stay possible: the failure handler
\* that logs and returns to idle, and the periodic timer
SpecSyncFair == InitSync /\ [][NextSync]_vars /\ WF_vars(Heal) /\ WF_vars(Tick)

\* what the local disk holds before the first download: nothing at the
\* destinations, or a destination directory with two files, or a destination file
DestX == <<Sep, "tmp", Sep, "dl", Sep, "x">>
LocalDiskInputs ==
    { [dirs |-> {Cwd}, files |-> {}],
      [dirs |-> {Cwd, Parent(DestX), DestX},
       files |-> { <<Join(DestX, <<"a">>), "old">>, <<Join(DestX, <<"c">>), "old">> }],
      [dirs |-> {Cwd, Parent(DestX)}, files |-> { <<DestX, "old">> }] }

InitDownload ==
    /\ SyncAtRest /\ PersistAtRest /\ UploadAtRest /\ ResolveAtRest /\ NamingAtRest /\ LayoutAtRest /\ CopyAtRest /\ SparkAtRest
    /\ callers \in {{"c1"}, Callers}
    /\ remote \in {"dir", "file", "notfound"}
    /\ localfs \in LocalDiskInputs
    /\ lockOwner = [s \in LockScopes |-> Free]
    /\ dpc = [c \in Callers |-> "idle"]
    /\ dargs = [c \in Callers |-> NoArgs]
    /\ exists_before = [c \in Callers |-> FALSE]
    /\ dpending = [c \in Callers |-> {}]
    /\ dresult = [c \in Callers |-> "none"]
    /\ dhist = [c \in Callers |-> NoHist]

NextDownload ==
    \/ \E c \in Callers, p \in LocalPathInputs, filelock \in BOOLEAN : DownloadBegin(c, p, filelock)
    \/ \E c \in Callers : AcquireLock(c)
    \/ \E c \in Callers : \E f \in CopyPlan(c) : CopyOpen(c, f)
    \/ \E c \in Callers : \E f \in CopyPlan(c) : CopyWrite(c, f)
    \/ \E c \in Callers : CopyFail(c)
    \/ \E c \in Callers : CopyDone(c)
    \/ \E c \in Callers : Rollback(c)

SpecDownload == InitDownload /\ [][NextDownload]_vars

InitUpload ==
    /\ SyncAtRest /\ PersistAtRest /\ DownloadAtRest /\ ResolveAtRest /\ NamingAtRest /\ LayoutAtRest /\ CopyAtRest /\ SparkAtRest
    /\ upSource \in SourceTreeInputs
    /\ exclude \in ExcludeInputs
    /\ upImplicit \in BOOLEAN
    /\ upRemote = EmptyFs
    /\ upPending = {}
    /\ upc = "idle"
    /\ upBack = EmptyFs
    /\ upLog = NoLog

NextUpload ==
    \/ \E backend \in {"ok", "fail"} : UploadBegin(backend)
    \/ \E f \in upPending : UploadCopyFile(f)
    \/ UploadFail
    \/ UploadReturn
    \/ DownloadBack
    \/ \E backend \in {"ok", "fail"} : DeleteUploaded(backend)

SpecUpload == InitUpload /\ [][NextUpload]_vars

InitResolve ==
    /\ SyncAtRest /\ PersistAtRest /\ DownloadAtRest /\ UploadAtRest /\ NamingAtRest /\ LayoutAtRest /\ CopyAtRest /\ SparkAtRest
    /\ rargs \in ResolveInputs
    /\ rresult = NotCalled

NextResolve == ResolveCall

SpecResolve == InitResolve /\ [][NextResolve]_vars

InitNaming ==
    /\ SyncAtRest /\ PersistAtRest /\ DownloadAtRest /\ UploadAtRest /\ ResolveAtRest /\ LayoutAtRest /\ CopyAtRest /\ SparkAtRest
    /\ nmIndex \in IndexInputs \X IndexInputs
    /\ nmPath = <<<<>>, <<>>>>
    /\ nmParsed = <<>>

NextNaming ==
    \/ ReadCheckpointPaths
    \/ ParseCheckpointNames

SpecNaming == InitNaming /\ [][NextNaming]_vars

InitLayout ==
    /\ SyncAtRest /\ PersistAtRest /\ DownloadAtRest /\ UploadAtRest /\ ResolveAtRest /\ NamingAtRest /\ CopyAtRest /\ SparkAtRest
    /\ lyArgs \in LayoutInputs
    /\ lyName \in ExperimentNameInputs
    /\ lyIndex \in { <<>>, <<3>> }
    /\ layout = NoCtx
    /\ lyPaths = NoPaths

NextLayout ==
    \/ LayoutInit
    \/ \E trial \in TrialNames, index \in LayoutIndexInputs : ReadPaths(trial, index, TRUE)
    \/ \E trial \in TrialNames : ReadPaths(trial, 0, FALSE)

SpecLayout == InitLayout /\ [][NextLayout]_vars

InitCopy ==
    /\ SyncAtRest /\ PersistAtRest /\ DownloadAtRest /\ UploadAtRest /\ ResolveAtRest /\ NamingAtRest /\ LayoutAtRest /\ SparkAtRest
    /\ cpArgs \in [source_filesystem : CopyFsInputs, destination_filesystem : CopyFsInputs,
                    kwargs : KwargsInputs]
    /\ cpRun = NoCopy

NextCopy == _pyarrow_fs_copy_files

SpecCopy == InitCopy /\ [][NextCopy]_vars

InitSpark ==
    /\ SyncAtRest /\ PersistAtRest /\ DownloadAtRest /\ UploadAtRest /\ ResolveAtRest /\ NamingAtRest /\ LayoutAtRest /\ CopyAtRest
    /\ globalMode \in BOOLEAN
    /\ collectLogs \in BOOLEAN
    /\ role \in { r \in [Procs -> {"head", "worker"}] : r["n2"] = "worker" }
    /\ tempDir = FALSE
    /\ mpc = [p \in Procs |-> "off"]
    /\ lock_fd = [p \in Procs |-> "none"]
    /\ flock = [p \in Procs |-> "none"]
    /\ clean_temp_dir_lock = [p \in Procs |-> "free"]
    /\ monitor = [p \in Procs |-> FALSE]
    /\ signals = 0
    /\ inv = [p \in Procs |-> [k \in Ctxs |-> NoInv]]

NextSpark ==
    \/ \E p \in Procs : SparkStart(p)
    \/ \E p \in Procs : HeadCleanup(p)
    \/ \E p \in Procs : LockShared(p)
    \/ \E p \in Procs : Popen(p)
    \/ \E p \in Procs : ChildExit(p)
    \/ \E p \in Procs : SigTerm(p)
    \/ \E p \in Procs : ParentDeath(p)
    \/ \E p \in Procs, k \in Ctxs : EnterRoutine(p, k)
    \/ \E p \in Procs, k \in Ctxs : ReleaseShared(p, k)
    \/ \E p \in Procs, k \in Ctxs : TryExclusive(p, k)
    \/ \E p \in Procs, k \in Ctxs, ok \in BOOLEAN : CopyLogs(p, k, ok)
    \/ \E p \in Procs, k \in Ctxs : RemoveTempDir(p, k)
    \/ \E p \in Procs, k \in Ctxs : FinallyClause(p, k)
    \/ \E p \in Procs : MainReturned(p)
    \/ \E p \in Procs : ProcessExit(p)

SpecSpark == InitSpark /\ [][NextSpark]_vars
(***************************************************************************)
(* Claims about persist_current_checkpoint and the validation marker       *)
(***************************************************************************)
\* C1 (as stated): whenever the marker is absent at the experiment path when
\* persist is called, the call fails with the reachability error and has created
\* no directory and copied no file on the durable filesystem.
C1_MarkerAbsentReachabilityError ==
    \A w \in Workers :
        (pc[w] # "idle" /\ ~callInfo[w].marker) =>
            /\ pc[w] = "done"
            /\ result[w] = Raised("Reachability")
            /\ wrote[w] = {}

\* C1 (amended): whenever the marker is absent when persist is called, the call
\* fails before any remote write (no directory created, no file copied); the
\* error is the reachability error when trial_dir_name is set, and the
\* invalid-state error of the path property, raised before the marker check
\* runs, when trial_dir_name is None.
C1_GateBeforeAnyWrite ==
    \A w \in Workers :
        (pc[w] # "idle" /\ ~callInfo[w].marker) =>
            /\ pc[w] = "done"
            /\ wrote[w] = {}
            /\ result[w] = IF callInfo[w].trialSet THEN Raised("Reachability")
                           ELSE Raised("InvalidState")

\* C1 witness: a persist call with trial_dir_name set found no marker and raised
\* the reachability error
C1_Witness ==
    \E w \in Workers :
        /\ pc[w] = "done" /\ ~callInfo[w].marker /\ callInfo[w].trialSet
        /\ result[w] = Raised("Reachability")

\* C2: a failure of create_dir or of the copy ends the call at once, reaches the
\* caller as the error the backend raised, and no checkpoint handle is returned.
C2_PersistErrorsPropagate ==
    \A w \in Workers :
        callInfo[w].backendErr # "none" =>
            /\ pc[w] = "done"
            /\ result[w] = Raised(callInfo[w].backendErr)
            /\ result[w].kind # "return"

\* C2 witness: the copy failed after part of the checkpoint was written
C2_Witness ==
    \E w \in Workers :
        /\ pc[w] = "done" /\ callInfo[w].backendErr = "CopyError"
        /\ Cardinality(wrote[w]) >= 2
        /\ result[w] = Raised("CopyError")

\* C3: a persist call that returns gives back (storage_filesystem,
\* checkpoint_fs_path), every source file is at that path, and the source
\* checkpoint directory holds what it held when the call started.
C3_PersistReturnsHandleKeepsSource ==
    \A w \in Workers :
        (pc[w] = "done" /\ result[w].kind = "return") =>
            /\ result[w].fs = ctx.storage_filesystem
            /\ result[w].path = Join(Join(Join(ctx.storage_fs_path, ctx.experiment_dir_name),
                                          trial_dir_name[w]),
                                     _make_checkpoint_dir_name(current_checkpoint_index[w]))
            /\ \A f \in callInfo[w].src :
                   _exists_at_fs_path(fs[Phys(result[w].fs, NodeOf(w))], Join(result[w].path, f[1]))
            /\ src[w] = callInfo[w].src
            /\ src[w] # {}

\* C3 witness: a persist call returned a handle
C3_Witness ==
    \E w \in Workers : pc[w] = "done" /\ result[w].kind = "return" /\ wrote[w] # {}

\* C4: the check that follows _create_validation_file in __init__ never fails,
\* a later check on a location where the marker was established succeeds, and a
\* check on a location where _create_validation_file was never called raises
\* the reachability error.
C4_CheckFollowsEstablish ==
    /\ ctorResult # "Reachability"
    /\ ctx.constructed => Location(ctx, DriverNode) \in established
    /\ \A w \in Workers :
           callInfo[w].check # "none" =>
               /\ callInfo[w].loc \in established => callInfo[w].check = "ok"
               /\ callInfo[w].loc \notin establishCalled => callInfo[w].check = "Reachability"

\* C4 witness: the context was constructed (its own check passed) and a worker
\* on a machine whose disk never saw _create_validation_file failed the check
C4_Witness ==
    /\ ctorResult = "ok"
    /\ \E w \in Workers :
           callInfo[w].check = "Reachability" /\ callInfo[w].loc \notin establishCalled
    /\ \E w \in Workers :
           callInfo[w].check = "ok" /\ callInfo[w].loc \in established


\* C5: for one engine, at most one upload transfer is running in every
\* reachable state, whatever the interleaving of scheduleUpload calls and ticks.
C5_AtMostOneUploadInFlight == Cardinality(InFlight) <= 1

(***************************************************************************)
(* Claims about _download_from_fs_path                                     *)
(***************************************************************************)
\* the files the local disk `store` holds at or under the path p
FilesUnder(store, p) == { f \in store.files : f[1] = p \/ IsPrefix(p \o <<Sep>>, f[1]) }

\* the only download call of its run has raised
LoneRaised(c) == callers = {c} /\ dpc[c] = "done" /\ dresult[c] = "raise"

\* C6: when the destination did not exist before the call and the copy fails,
\* the destination path does not exist after download raises.
C6_FailedDownloadLeavesNoTrace ==
    \A c \in Callers :
        (LoneRaised(c) /\ ~exists_before[c]) => ~LocalExists(localfs, dargs[c]._local_path)

\* C7 (as stated): when the destination existed before the call and the copy
\* fails partway, every file present before the call is still present with the
\* same content after download raises.
C7_PriorContentsUntouched ==
    \A c \in Callers :
        (LoneRaised(c) /\ exists_before[c]) =>
            FilesUnder(dhist[c].before, dargs[c]._local_path) \subseteq localfs.files

\* C7 (amended): when the destination existed before the call and the download
\* raises, with no other download running, nothing is removed: the destination
\* still exists, every file present before the call is still present, and every
\* file the copy did not open keeps its content.
C7_FailedDownloadRemovesNothing ==
    \A c \in Callers :
        (LoneRaised(c) /\ exists_before[c]) =>
            /\ LocalExists(localfs, dargs[c]._local_path)
            /\ \A f \in FilesUnder(dhist[c].before, dargs[c]._local_path) :
                   /\ IsLocalFile(localfs, f[1])
                   /\ f[1] \notin dhist[c].written => f \in localfs.files

\* C7 witness: a failed download into an existing directory overwrote one of
\* the files that were there and left another one alone
C7_Witness ==
    \E c \in Callers :
        /\ LoneRaised(c) /\ exists_before[c]
        /\ \E f \in FilesUnder(dhist[c].before, dargs[c]._local_path) :
               f[1] \in dhist[c].written /\ f \notin localfs.files
        /\ \E f \in FilesUnder(dhist[c].before, dargs[c]._local_path) :
               f[1] \notin dhist[c].written /\ f \in localfs.files

\* C8: of the download calls with filelock set that name one destination, at
\* most one is in its copy phase in every state; and a call waiting for its lock
\* waits only for a call to the same destination.
C8_LockSerializesSameDestination ==
    /\ \A c \in Callers : \A o \in Callers \ {c} :
           (/\ dargs[c].filelock /\ dargs[o].filelock
            /\ dargs[c]._local_path = dargs[o]._local_path) =>
               ~(dpc[c] = "copy" /\ dpc[o] = "copy")
    /\ \A c \in Callers :
           (dpc[c] = "lock" /\ lockOwner[dargs[c].scope] # Free) =>
               /\ lockOwner[dargs[c].scope] \in Callers \ {c}
               /\ dargs[lockOwner[dargs[c].scope]]._local_path = dargs[c]._local_path
               /\ dpc[lockOwner[dargs[c].scope]] = "copy"

\* C8 witness: two calls name one destination by different spellings; one is
\* copying, the other waits for the lock
C8_Witness ==
    \E c \in Callers : \E o \in Callers \ {c} :
        /\ dargs[c].filelock /\ dargs[o].filelock
        /\ dargs[c].local_path # dargs[o].local_path
        /\ dargs[c]._local_path = dargs[o]._local_path
        /\ dpc[c] = "copy" /\ dpending[c] # {}
        /\ dpc[o] = "lock"

\* a second state of interest for C8: two locked calls to distinct destinations
\* copy at the same time
C8_DistinctDestinationsOverlap ==
    \E c \in Callers : \E o \in Callers \ {c} :
        /\ dargs[c].filelock /\ dargs[o].filelock
        /\ dargs[c]._local_path # dargs[o]._local_path
        /\ dpc[c] = "copy" /\ dpc[o] = "copy"

(***************************************************************************)
(* Claims about upload with exclude patterns and get_fs_and_path           *)
(***************************************************************************)
\* an entry of the uploaded tree that the exclude list removes as the claim C9
\* reads it: the entry matches, or it lies under a directory that matches
ExcludedWithSubtree(tree, excl, name) ==
    \/ _should_exclude(tree, excl, name)
    \/ \E d \in FindAll(tree, UploadLocalPath).dirs :
           _should_exclude(tree, excl, d) /\ IsPrefix(d \o <<Sep>>, name)

\* the relative paths of the files of a tree rooted at base
RelativeFiles(tree, base) ==
    { Relpath(f[1], base) : f \in { g \in tree.files : IsPrefix(base \o <<Sep>>, g[1]) } }

\* C9: after an upload with a non-empty exclude list and the download back,
\* the files downloaded are exactly the original files minus every file that
\* matches a pattern or lies under a directory that matches one.
C9_ExcludeRoundTrip ==
    (upc = "done" /\ exclude # <<>>) =>
        RelativeFiles(upBack, DownloadBackPath) =
            RelativeFiles([dirs |-> upSource.dirs,
                           files |-> { f \in upSource.files :
                                         ~ExcludedWithSubtree(upSource, exclude, f[1]) }],
                          UploadLocalPath)

C10_AutoResolved ==
    /\ rresult # NotCalled /\ rargs[2] = None
    /\ \E i \in 1..Len(rargs[1]) : rargs[1][i] = QuerySep
    /\ rresult.err = "none" /\ rresult.path # <<>> /\ Len(rresult.path) < Len(rargs[1])

RECURSIVE DigitCount(_)
DigitCount(n) == IF n < 10 THEN 1 ELSE 1 + DigitCount(n \div 10)

\* C12: the last component of checkpoint_fs_path is "checkpoint_" followed by
\* decimal digits, as many as the index has and at least six (zero-padded);
\* _get_checkpoint_index of that name is the index; two distinct indices give
\* two distinct names.
C12_CheckpointNameRoundTrip ==
    nmParsed # <<>> =>
        /\ \A k \in 1..2 :
               LET name == Basename(nmPath[k])
               IN  /\ SubSeq(name, 1, 2) = <<"checkpoint", "_">>
                   /\ \A i \in 3..Len(name) : \E d \in 1..10 : name[i] = DigitChar[d]
                   /\ Len(name) - 2 = (IF DigitCount(nmIndex[k]) > 6
                                       THEN DigitCount(nmIndex[k]) ELSE 6)
                   /\ nmParsed[k] = nmIndex[k]
        /\ nmIndex[1] # nmIndex[2] => Basename(nmPath[1]) # Basename(nmPath[2])

\* C12 witness: two distinct indices, one of them with six digits, were named
\* and parsed back
C12_Witness ==
    /\ nmParsed # <<>>
    /\ nmIndex[1] # nmIndex[2]
    /\ nmIndex[1] = 12 /\ Basename(nmPath[1]) = <<"checkpoint", "_", "0", "0", "0", "0", "1", "2">>
    /\ nmParsed[2] = 999999

\* C13: on one copy of the context, no persist call writes to a checkpoint
\* directory that an earlier persist call of that copy wrote to.
C13_NoCheckpointDirectoryReuse ==
    \A w \in Workers :
        (pc[w] \in {"copy", "done"} /\ wrote[w] # {}) => Dest(w).path \notin persisted[w]

\* C14: once trial_dir_name of a copy of the context holds a name, no step
\* changes it.
C14_TrialNameSetAtMostOnce ==
    [][\A w \in Workers :
           trial_dir_name[w] # NoTrial => trial_dir_name'[w] = trial_dir_name[w]]_vars

(***************************************************************************)
(* Claims about the fields StorageContext.__init__ computes                *)
(***************************************************************************)
\* the context was built and its fields are there to read
Built == layout # NoCtx /\ layout.constructed

\* C15: a context has a syncer exactly when a storage_filesystem was given or
\* storage_fs_path differs from storage_local_path; without a syncer the
\* filesystem is the local one and experiment_fs_path equals
\* experiment_local_path.
C15_SyncerIffRemoteOrCustom ==
    Built =>
        /\ layout.syncer <=>
               (lyArgs[2] # None \/ layout.storage_fs_path # layout.storage_local_path)
        /\ ~layout.syncer =>
               /\ layout.storage_filesystem = "Local"
               /\ experiment_fs_path(layout) = experiment_local_path(layout)
        /\ lyArgs = <<<<>>, None>> => ~layout.syncer

\* C15 witness: a context built with storage_path=None has no syncer
C15_Witness == Built /\ lyArgs = <<<<>>, None>> /\ ~layout.syncer

\* a second state of interest for C15: a custom filesystem given with the path
\* of the local cache still gets a syncer
C15_CustomAtLocalPath ==
    Built /\ lyArgs[2] # None /\ layout.storage_fs_path = layout.storage_local_path /\ layout.syncer

C17_WaitReturnsOnlyFromIdle ==
    /\ waiter.pc = "returned" => waiter.seen = "Idle"
    /\ (waiter.pc \in {"returned", "timeout"} /\ waiter.seen = "Syncing") => waiter.pc = "timeout"

\* a wait that ended with the timeout error while the engine was Syncing
C17_Witness == waiter.pc = "timeout" /\ waiter.seen = "Syncing"

\* a wait that returned normally after an upload had been started
C17_ReturnedAfterCycle ==
    waiter.pc = "returned" /\ \E t \in 1..MaxTransfers : transfer[t] # "none"

\* C18: a failed sync cycle does not leave the engine stuck: from Failed the
\* engine always returns to Idle, and with a fair periodic tick an upload is
\* started again afterwards (as long as MaxTransfers leaves an upload to start).
C18_FailedCycleHealsAndRetries ==
    /\ (syncState = "Failed") ~> (syncState = "Idle")
    /\ (syncState = "Failed" /\ NotStarted # {}) ~> (syncState = "Syncing")

\* an upload the engine waits on that was started after a cycle had failed
C18_Witness ==
    /\ syncState = "Syncing" /\ tracked # 0
    /\ \E t \in 1..MaxTransfers : t < tracked /\ transfer[t] = "failed"

\* C19: _is_directory fails with FileNotFoundError when (fs, fs_path) does not
\* exist; it returns True only for an existing directory and False only for an
\* existing file.
C19_IsDirectoryFailsOnMissingPath ==
    \A c \in Callers : dpc[c] # "idle" =>
        /\ remote = "notfound" => dhist[c].is_directory = "FileNotFoundError"
        /\ dhist[c].is_directory = "True" => remote = "dir"
        /\ dhist[c].is_directory = "False" => remote = "file"

\* the persist call of worker w has returned a checkpoint handle
HasReturned(w) == pc[w] = "done" /\ result[w].kind = "return"
ReturnedStore(w) == fs[Phys(result[w].fs, NodeOf(w))]

\* C20: workers that persist to the same checkpoint directory, each with a
\* shard file of its own name, leave the union of their shards there: the shard
\* of every worker whose call returned is in the directory with that worker's
\* content, and no shard in it holds another worker's content.
C20_ShardsOfAllWorkersKept ==
    \A w \in Workers : HasReturned(w) =>
        /\ <<Join(result[w].path, ShardName(w)), w>> \in ReturnedStore(w).files
        /\ \A f \in ReturnedStore(w).files : \A v \in Workers :
               f[1] = Join(result[w].path, ShardName(v)) => f[2] = v

\* two workers whose calls returned the same checkpoint directory on a shared
\* store, which holds both shards
C20_Witness ==
    \E w, v \in Workers :
        /\ w # v /\ HasReturned(w) /\ HasReturned(v)
        /\ result[w].path = result[v].path
        /\ Phys(result[w].fs, NodeOf(w)) = Phys(result[v].fs, NodeOf(v))
        /\ { <<Join(result[w].path, ShardName(x)), x>> : x \in {w, v} } \subseteq ReturnedStore(w).files

\* C21: the paths of a context nest: experiment_fs_path is storage_fs_path joined
\* with the experiment name, trial_fs_path starts with experiment_fs_path and
\* ends in the trial name, and checkpoint_fs_path starts with trial_fs_path and
\* ends in the checkpoint directory name.
C21_PathsNest ==
    (Built /\ lyPaths.read) =>
        /\ lyPaths.experiment = Join(layout.storage_fs_path, lyName)
        /\ IsPrefix(layout.storage_fs_path, lyPaths.experiment)
        /\ Basename(lyPaths.experiment) = lyName
        /\ lyPaths.trial_path = lyPaths.experiment \o <<Sep>> \o lyPaths.trial
        /\ lyPaths.checkpoint =
               lyPaths.trial_path \o <<Sep>> \o _make_checkpoint_dir_name(lyPaths.index)
        /\ IsPrefix(lyPaths.experiment, lyPaths.trial_path)
        /\ IsPrefix(lyPaths.trial_path, lyPaths.checkpoint)

\* the paths of a context on a URI storage path, read with a trial name and index 3
C21_Witness ==
    /\ Built /\ lyPaths.read /\ is_uri(lyArgs[1]) /\ lyPaths.index = 3
    /\ IsPrefix(lyPaths.experiment, lyPaths.checkpoint)
    /\ Len(lyPaths.checkpoint) > Len(lyPaths.experiment)

\* C22: a context constructed without a checkpoint index starts at index 0: the
\* checkpoint directory read before any index is assigned is checkpoint_000000.
C22_FreshContextStartsAtZero ==
    (Built /\ lyIndex = <<>>) =>
        /\ layout.current_checkpoint_index = 0
        /\ (lyPaths.read /\ ~lyPaths.assigned) =>
               /\ Basename(lyPaths.checkpoint) =
                      <<"checkpoint", "_", "0", "0", "0", "0", "0", "0">>
               /\ _get_checkpoint_index(Basename(lyPaths.checkpoint)) = 0

\* the checkpoint path of a context built without an index, read before any
\* index was assigned
C22_Witness ==
    /\ Built /\ lyIndex = <<>> /\ lyPaths.read /\ ~lyPaths.assigned
    /\ lyPaths.checkpoint # <<>>

\* C23: the best-effort calls never fail their caller: no exception leaves
\* _create_directory or _delete_fs_path whatever the backend does; an upload whose
\* _create_directory was caught goes on to its copy, and an upload that raised
\* raised from the copy.
C23_BestEffortNeverRaises ==
    /\ upLog.raised_by \notin {"_create_directory", "_delete_fs_path"}
    /\ upLog.create_dir = "caught" => upc \in {"copy", "raised", "uploaded", "done"}
    /\ upc = "raised" <=> upLog.raised_by = "_pyarrow_fs_copy_files"
    /\ upLog.delete # "none" => upc \in {"done", "raised"}

\* an upload whose directory creation failed and was caught, whose copy then
\* raised, and whose cleanup delete failed and was caught as well
C23_Witness ==
    /\ upLog.create_dir = "caught" /\ upc = "raised"
    /\ upLog.raised_by = "_pyarrow_fs_copy_files"
    /\ upLog.delete = "caught"

\* an upload that completed although its directory creation failed
C23_UploadedAfterCaughtCreate == upLog.create_dir = "caught" /\ upc = "uploaded"

\* C24: a copy with an S3 filesystem at either end runs single-threaded whatever
\* options the caller gives, use_threads=True included; a copy between other
\* filesystems runs with the caller's use_threads, or the default when none is given.
C24_S3CopiesSingleThreaded ==
    cpRun.called =>
        IF IsS3(cpArgs.source_filesystem) \/ IsS3(cpArgs.destination_filesystem)
        THEN ~cpRun.use_threads
        ELSE cpRun.use_threads = (IF "use_threads" \in DOMAIN cpArgs.kwargs
                                  THEN cpArgs.kwargs["use_threads"] ELSE TRUE)

\* C25: of two downloads to the same destination that both take the file lock,
\* the rollback of the one that failed removes nothing the other one wrote, be
\* the other one finished successfully or still copying.
C25_RollbackSparesOtherDownload ==
    \A c, o \in Callers :
        ( /\ c # o
          /\ dpc[c] = "done" /\ dresult[c] = "raise"
          /\ dresult[o] = "ok" \/ dpc[o] = "copy"
          /\ dargs[c].filelock /\ dargs[o].filelock
          /\ dargs[c]._local_path = dargs[o]._local_path )
        => \A p \in dhist[o].written : IsLocalFile(localfs, p)

\* C26: persist_current_checkpoint called while trial_dir_name is None raises the
\* invalid-state error of the path property before the marker check runs and
\* before any remote operation: the call has written nothing.
C26_PersistWithoutTrialNameFailsFirst ==
    \A w \in Workers :
        (pc[w] # "idle" /\ ~callInfo[w].trialSet) =>
            /\ pc[w] = "done"
            /\ result[w] = Raised("InvalidState")
            /\ callInfo[w].check = "none"
            /\ wrote[w] = {}

\* a persist call without trial_dir_name, at a location without marker, that
\* raised the invalid-state error and not the reachability error
C26_Witness ==
    \E w \in Workers :
        /\ pc[w] = "done" /\ ~callInfo[w].trialSet /\ ~callInfo[w].marker
        /\ result[w] = Raised("InvalidState")
        /\ wrote[w] = {}

(***************************************************************************)
(* Claims about the Spark node launcher                                    *)
(***************************************************************************)
\* C27: temp_dir is never removed while a node of the machine holds the shared
\* lock on <temp_dir>.lock, whatever the order of node starts and exits.
C27_NoRemovalWhileShared ==
    [][(tempDir /\ ~tempDir') => \A q \in Procs : flock[q] # "sh"]_vars

\* the entries an invocation of the exit routine has logged
Logged(p, k) == { inv[p][k].log[i] : i \in 1..Len(inv[p][k].log) }

\* the call of context k is inside the section of lines 107-129
Performing(p, k) == Runs(p, k) /\ inv[p][k].pc \in {"copy", "rmtree"}

\* C28: log collection and removal of temp_dir are performed only by a node that
\* holds the exclusive lock it got without blocking, by at most one node of the
\* machine at a time; a call whose exclusive lock failed performs neither; the
\* log collection comes before the removal and its failure does not prevent it.
C28_CleanupOnlyUnderExclusiveLock ==
    /\ \A p \in Procs, k \in Ctxs :
         Performing(p, k) => flock[p] = "ex" /\ inv[p][k].lock_acquired
    /\ \A p \in Procs, k \in Ctxs, j \in Ctxs : \A q \in Procs \ {p} :
         ~(Performing(p, k) /\ Performing(q, j))
    /\ \A p \in Procs, k \in Ctxs :
         ~inv[p][k].lock_acquired =>
             Logged(p, k) \cap {"copied", "copy_failed", "removed"} = {}
    /\ \A p \in Procs, k \in Ctxs :
         inv[p][k].lock_acquired /\ inv[p][k].pc \in {"finally", "returned", "raised"} =>
             inv[p][k].log \in (IF collectLogs
                                THEN {<<"copied", "removed">>, <<"copy_failed", "removed">>}
                                ELSE {<<"removed">>})

\* one node's call was refused the exclusive lock, and another node's call
\* removed temp_dir after its log collection had failed
C28_Witness ==
    \E p \in Procs, k \in Ctxs, j \in Ctxs : \E q \in Procs \ {p} :
        /\ inv[p][k].log = <<"copy_failed", "removed">>
        /\ inv[p][k].pc = "returned"
        /\ "blocked" \in Logged(q, j)
        /\ ~tempDir

\* the node took the shared lock on the lock file of temp_dir
Shared(p) == lock_fd[p] # "none"

\* a call of the exit routine of the node ran to its end
Completed(p) == \E k \in Ctxs : inv[p][k].pc = "returned"

\* C29: once every node that shared temp_dir has run its exit routine to
\* completion, and no other node is starting or running, temp_dir has been
\* removed, in whatever order the nodes released the shared lock and tried the
\* exclusive lock.
C29_LastNodeRemovesTempDir ==
    ( /\ \E p \in Procs : Shared(p)
      /\ \A p \in Procs : mpc[p] = "off" \/ (Shared(p) /\ Completed(p)) )
    => ~tempDir

\* both nodes shared temp_dir and completed their exit routines, one of them
\* after being refused the exclusive lock, and temp_dir is gone
C29_Witness ==
    /\ \A p \in Procs : Shared(p) /\ Completed(p) /\ mpc[p] = "dead"
    /\ \E p \in Procs, k \in Ctxs : inv[p][k].log = <<"blocked">> /\ inv[p][k].pc = "returned"
    /\ \E p \in Procs, k \in Ctxs : "removed" \in Logged(p, k)
    /\ ~tempDir

\* C30: in every interleaving of the three triggers of the exit routine inside
\* one process (child exit, SIGTERM handler, parent-death monitor) each call
\* returns without raising, and no call unlocks or otherwise uses lock_fd after
\* an earlier call closed it.
C30_RoutineNeverRaisesNorUsesClosedFd ==
    \A p \in Procs, k \in Ctxs :
        /\ inv[p][k].pc # "raised"
        /\ "EBADF" \notin Logged(p, k)
====
